---------------------------- MODULE Spec2Model ----------------------------
(***************************************************************************)
(* Model of the weather Condition & Trend Analyzer (utils/analyzer.py).    *)
(*                                                                         *)
(* Python values.  A numeric field of a reading is an optional number: the *)
(* key may be missing from the dict, or present with the value None, or    *)
(* present with a number.  A dict is a function whose DOMAIN is its key    *)
(* set; a number n is the 1-tuple <<n>> and None is the empty tuple, so    *)
(* "x is not None" is x # None.  Numbers are fixed-point integers in       *)
(* quarter units (U(1) = 1.0, so 0.25 = 1, 0.5 = 2, 1.5 = 6): every such   *)
(* value, and every sum and difference of them, is exact in binary         *)
(* floating point, so the comparisons below decide as the Python ones do.  *)
(* The top-level argument, the elements of a list argument and the         *)
(* "current_weather" section carry their Python type,                      *)
(* [type |-> "dict" | "list" | "int" | "NoneType", val |-> _], because the *)
(* code dispatches on isinstance and on truthiness.  Forecast entries are  *)
(* plain dicts.  A highlight is its fixed text and the values formatted    *)
(* into it.  An exception leaving analyze_patterns is the result Raised:   *)
(* each _raises operator states when the function of that name raises.     *)
(*                                                                         *)
(* State.  data is the object passed to analyze_patterns, result what the  *)
(* call returned, pc the position of the caller and history the completed  *)
(* calls in order, each with the argument as passed, the argument as the   *)
(* call left it and the result.  The module has no variable of its own.    *)
(* cache is a GeocodeCache object (utils/geocoding.py), translated the     *)
(* last call of translate_code (utils/translations.py), collector a run    *)
(* of call_go_collector (utils/collection.py) and timeseries the file of   *)
(* one location that save_to_timeseries keeps                              *)
(* (utils/intelligence_persistence.py).  Each utility has a specification  *)
(* of its own; the others are idle in it.                                  *)
(***************************************************************************)
EXTENDS Integers, Sequences, FiniteSets, TLC

VARIABLES data, result, pc, history, cache, translated, collector, timeseries

vars == <<data, result, pc, history, cache, translated, collector, timeseries>>

\* the variables of the analyzer, and those of the other utilities
analyzer_vars == <<data, result, pc, history>>

utility_vars == <<cache, translated, collector, timeseries>>

-----------------------------------------------------------------------------
(* Python value helpers *)

U(n) == 4 * n

Half == U(1) \div 2

None == <<>>

Num(n) == <<n>>

V(x) == x[1]

Get(d, k, default) == IF k \in DOMAIN d THEN d[k] ELSE default

PyDict(d) == [type |-> "dict", val |-> d]

PyList(s) == [type |-> "list", val |-> s]

PyInt(n) == [type |-> "int", val |-> n]

PyNone == [type |-> "NoneType", val |-> 0]

IsDict(x) == x.type = "dict"

\* Python truthiness: "if not data", "if current_weather".
Truthy(x) ==
    CASE x.type = "NoneType" -> FALSE
      [] x.type = "dict" -> DOMAIN x.val # {}
      [] x.type = "list" -> Len(x.val) > 0
      [] x.type = "int" -> x.val # 0

Abs(n) == IF n < 0 THEN -n ELSE n

Min2(a, b) == IF a < b THEN a ELSE b

RECURSIVE SumSeq(_)
SumSeq(s) == IF s = <<>> THEN 0 ELSE Head(s) + SumSeq(Tail(s))

MaxSeq(s) == CHOOSE m \in {s[i] : i \in DOMAIN s} : \A i \in DOMAIN s : s[i] <= m

MinSeq(s) == CHOOSE m \in {s[i] : i \in DOMAIN s} : \A i \in DOMAIN s : m <= s[i]

\* s[:n]
Take(s, n) == SubSeq(s, 1, Min2(n, Len(s)))

\* [x for x in s if Test(x)], in order
RECURSIVE SelectIdx(_, _, _)
SelectIdx(s, keep, i) ==
    IF i > Len(s) THEN <<>>
    ELSE (IF i \in keep THEN <<s[i]>> ELSE <<>>) \o SelectIdx(s, keep, i + 1)

\* str.startswith on strings held as character sequences
StartsWith(s, prefix) ==
    /\ Len(s) >= Len(prefix)
    /\ SubSeq(s, 1, Len(prefix)) = prefix

Highlight(kind, args) == [kind |-> kind, args |-> args]

Insights(conditions, highlights) ==
    [conditions |-> conditions, highlights |-> highlights]

-----------------------------------------------------------------------------
(* extract_weather_data *)

\* Mutant: the list shape does not look for a forecast in its first element.
extract_weather_data_ListWithoutForecast(d) ==
    IF IsDict(d)
    THEN IF "current_weather" \in DOMAIN d.val /\ "forecast" \in DOMAIN d.val
         THEN [current_weather |-> d.val["current_weather"],
               forecast_data |-> d.val["forecast"]]
         ELSE [current_weather |-> d,
               forecast_data |-> IF "forecast" \in DOMAIN d.val
                                 THEN d.val["forecast"] ELSE <<>>]
    ELSE IF d.type = "list" /\ Len(d.val) > 0
    THEN [current_weather |-> d.val[1], forecast_data |-> <<>>]
    ELSE [current_weather |-> PyDict(<<>>), forecast_data |-> <<>>]

extract_weather_data(d) ==
    IF IsDict(d)
    THEN IF "current_weather" \in DOMAIN d.val /\ "forecast" \in DOMAIN d.val
         THEN [current_weather |-> d.val["current_weather"],
               forecast_data |-> d.val["forecast"]]
         ELSE [current_weather |-> d,
               forecast_data |-> IF "forecast" \in DOMAIN d.val
                                 THEN d.val["forecast"] ELSE <<>>]
    ELSE IF d.type = "list" /\ Len(d.val) > 0
    THEN [current_weather |-> d.val[1],
          forecast_data |-> IF IsDict(d.val[1])
                            THEN Get(d.val[1].val, "forecast", <<>>)
                            ELSE <<>>]
    ELSE [current_weather |-> PyDict(<<>>), forecast_data |-> <<>>]

-----------------------------------------------------------------------------
(* Classifiers of the current reading *)

\* Mutant: the comfortable band written with strict bounds, "20 < temp < 25".
analyze_temperature_conditions_StrictBand(temp) ==
    IF temp = None THEN <<>>
    ELSE IF V(temp) < 0 THEN <<"freezing_temperature">>
    ELSE IF V(temp) > U(30) THEN <<"hot_temperature">>
    ELSE IF U(20) < V(temp) /\ V(temp) < U(25) THEN <<"comfortable_temperature">>
    ELSE IF V(temp) < U(5) THEN <<"very_cold_temperature">>
    ELSE IF V(temp) > U(25) THEN <<"warm_temperature">>
    ELSE <<>>

analyze_temperature_conditions(temp) ==
    IF temp = None THEN <<>>
    ELSE IF V(temp) < 0 THEN <<"freezing_temperature">>
    ELSE IF V(temp) > U(30) THEN <<"hot_temperature">>
    ELSE IF U(20) <= V(temp) /\ V(temp) <= U(25) THEN <<"comfortable_temperature">>
    ELSE IF V(temp) < U(5) THEN <<"very_cold_temperature">>
    ELSE IF V(temp) > U(25) THEN <<"warm_temperature">>
    ELSE <<>>

analyze_humidity_conditions(humidity) ==
    IF humidity = None THEN <<>>
    ELSE IF V(humidity) > U(80) THEN <<"high_humidity">>
    ELSE IF V(humidity) > U(60) THEN <<"moderate_humidity">>
    ELSE IF V(humidity) < U(30) THEN <<"low_humidity">>
    ELSE <<>>

analyze_pressure_conditions(pressure) ==
    IF pressure = None THEN <<>>
    ELSE IF V(pressure) < U(1000) THEN <<"low_pressure">>
    ELSE IF V(pressure) > U(1030) THEN <<"high_pressure">>
    ELSE IF V(pressure) < U(1013) THEN <<"below_average_pressure">>
    ELSE IF V(pressure) > U(1020) THEN <<"above_average_pressure">>
    ELSE <<>>

\* "rain"
RainPrefix == <<"r", "a", "i", "n">>

\* Mutant: the light band includes 0.5 ("precipitation <= 0.5").
analyze_precipitation_conditions_LightInclusive(precipitation, current_weather) ==
    IF V(precipitation) > 0
    THEN IF V(precipitation) <= Half THEN <<"light_precipitation">>
         ELSE IF V(precipitation) > U(5) THEN <<"heavy_precipitation">>
         ELSE <<"moderate_precipitation">>
    ELSE IF V(precipitation) = 0
            /\ StartsWith(Get(current_weather.val, "symbol_code", <<>>), RainPrefix)
    THEN <<"potential_precipitation">>
    ELSE <<>>

\* precipitation is a number here; see analyze_precipitation_conditions_raises
analyze_precipitation_conditions(precipitation, current_weather) ==
    IF V(precipitation) > 0
    THEN IF V(precipitation) < Half THEN <<"light_precipitation">>
         ELSE IF V(precipitation) > U(5) THEN <<"heavy_precipitation">>
         ELSE <<"moderate_precipitation">>
    ELSE IF V(precipitation) = 0
            /\ StartsWith(Get(current_weather.val, "symbol_code", <<>>), RainPrefix)
    THEN <<"potential_precipitation">>
    ELSE <<>>

\* TypeError on "None > 0"; AttributeError on .get of a non-dict, which is
\* reached only when precipitation > 0 is false and precipitation == 0 is true.
analyze_precipitation_conditions_raises(precipitation, current_weather) ==
    \/ precipitation = None
    \/ /\ V(precipitation) = 0
       /\ ~IsDict(current_weather)

analyze_wind_conditions(wind_speed) ==
    IF wind_speed = None THEN <<>>
    ELSE IF V(wind_speed) > U(15) THEN <<"high_wind_warning">>
    ELSE IF V(wind_speed) > U(8) THEN <<"moderate_wind_warning">>
    ELSE IF V(wind_speed) > U(3) THEN <<"light_wind_condition">>
    ELSE <<>>

analyze_cloud_cover_conditions(cloud_cover) ==
    IF cloud_cover = None THEN <<>>
    ELSE IF V(cloud_cover) > U(90) THEN <<"overcast_conditions">>
    ELSE IF V(cloud_cover) > U(70) THEN <<"mostly_cloudy">>
    ELSE IF V(cloud_cover) > U(40) THEN <<"partly_cloudy">>
    ELSE IF V(cloud_cover) < U(20) THEN <<"clear_sky_conditions">>
    ELSE <<>>

\* Mutant: the sleet warning fires from 0.5 mm ("precipitation >= 0.5").
analyze_temperature_precipitation_conditions_FromHalf(temp, precipitation) ==
    IF V(precipitation) > 0 /\ temp # None
    THEN IF V(temp) < 0 THEN <<"freezing_precipitation_warning">>
         ELSE IF V(temp) < U(4) /\ V(precipitation) >= Half
         THEN <<"snow_rain_mix_warning">>
         ELSE <<>>
    ELSE <<>>

analyze_temperature_precipitation_conditions(temp, precipitation) ==
    IF V(precipitation) > 0 /\ temp # None
    THEN IF V(temp) < 0 THEN <<"freezing_precipitation_warning">>
         ELSE IF V(temp) < U(4) /\ V(precipitation) > Half
         THEN <<"snow_rain_mix_warning">>
         ELSE <<>>
    ELSE <<>>

analyze_precipitation_probability_conditions(precipitation_prob) ==
    IF V(precipitation_prob) > U(70) THEN <<"very_high_precipitation_probability">>
    ELSE IF V(precipitation_prob) > U(40) THEN <<"high_precipitation_probability">>
    ELSE IF V(precipitation_prob) > U(20) THEN <<"moderate_precipitation_probability">>
    ELSE <<>>

\* Mutant: a humidity of exactly 60 already counts as humid.
analyze_atmospheric_conditions_From60(temp, humidity) ==
    IF temp # None /\ humidity # None /\ V(temp) > U(20) /\ V(humidity) >= U(60)
    THEN <<"humid_and_warm_condition">>
    ELSE <<>>

analyze_atmospheric_conditions(temp, humidity) ==
    IF temp # None /\ humidity # None /\ V(temp) > U(20) /\ V(humidity) > U(60)
    THEN <<"humid_and_warm_condition">>
    ELSE <<>>

analyze_detailed_weather_conditions(current_weather) ==
    IF IsDict(current_weather)
    THEN LET cw == current_weather.val
             wind_speed == Get(cw, "wind_speed", None)
             cloud_cover == Get(cw, "cloud_cover", None)
             precipitation_prob == Get(cw, "precipitation_probability", Num(0))
             temp == Get(cw, "temperature", None)
             humidity == Get(cw, "humidity", None)
             precipitation == Get(cw, "precipitation_mm", Num(0))
         IN  analyze_wind_conditions(wind_speed)
             \o analyze_cloud_cover_conditions(cloud_cover)
             \o analyze_temperature_precipitation_conditions(temp, precipitation)
             \o analyze_precipitation_probability_conditions(precipitation_prob)
             \o analyze_atmospheric_conditions(temp, humidity)
    ELSE <<>>

\* TypeError on "None > 0" (precipitation_mm) or "None > 70" (probability)
analyze_detailed_weather_conditions_raises(current_weather) ==
    /\ IsDict(current_weather)
    /\ \/ Get(current_weather.val, "precipitation_mm", Num(0)) = None
       \/ Get(current_weather.val, "precipitation_probability", Num(0)) = None

-----------------------------------------------------------------------------
(* Near-term trend detectors (first 12 forecast entries).  A forecast entry *)
(* is a dict; current_weather is the typed current reading.                 *)

\* [f.get(k, default) for f in entries]
Field(entries, k, default) ==
    [i \in DOMAIN entries |-> Get(entries[i], k, default)]

\* [f.get(k, default) for f in entries if f.get(k) is not None]
Present(entries, k, default) ==
    SelectIdx(Field(entries, k, default),
              {i \in DOMAIN entries : Get(entries[i], k, None) # None}, 1)

\* min(12, len(near_term)) of the highlight texts
Hours(near_term) == Min2(12, Len(near_term))

\* Mutant: the change is measured to the first available temperature of the
\* window (temps[0]) instead of the last.
analyze_temperature_trends_FirstEntry(near_term, current_temp) ==
    LET temps == Present(near_term, "temperature", current_temp)
        temp_change == V(temps[1]) - V(current_temp)
    IN  IF temps = <<>> THEN Insights(<<>>, <<>>)
        ELSE IF temp_change > 3 * Half
        THEN Insights(<<"warming_trend">>,
                 <<Highlight("Temperature rising by", <<temp_change, Hours(near_term)>>)>>)
        ELSE IF temp_change < -(3 * Half)
        THEN Insights(<<"cooling_trend">>,
                 <<Highlight("Temperature dropping by", <<Abs(temp_change), Hours(near_term)>>)>>)
        ELSE IF Abs(temp_change) > Half
        THEN IF temp_change > 0
             THEN Insights(<<>>, <<Highlight("Slight temperature rise of", <<temp_change>>)>>)
             ELSE Insights(<<>>, <<Highlight("Slight temperature drop of", <<Abs(temp_change)>>)>>)
        ELSE Insights(<<>>, <<>>)

analyze_temperature_trends(near_term, current_temp) ==
    LET temps == Present(near_term, "temperature", current_temp)
        temp_change == V(temps[Len(temps)]) - V(current_temp)
    IN  IF temps = <<>> THEN Insights(<<>>, <<>>)
        ELSE IF temp_change > 3 * Half
        THEN Insights(<<"warming_trend">>,
                 <<Highlight("Temperature rising by", <<temp_change, Hours(near_term)>>)>>)
        ELSE IF temp_change < -(3 * Half)
        THEN Insights(<<"cooling_trend">>,
                 <<Highlight("Temperature dropping by", <<Abs(temp_change), Hours(near_term)>>)>>)
        ELSE IF Abs(temp_change) > Half
        THEN IF temp_change > 0
             THEN Insights(<<>>, <<Highlight("Slight temperature rise of", <<temp_change>>)>>)
             ELSE Insights(<<>>, <<Highlight("Slight temperature drop of", <<Abs(temp_change)>>)>>)
        ELSE Insights(<<>>, <<>>)

\* TypeError on "temps[-1] - None"
analyze_temperature_trends_raises(near_term, current_temp) ==
    /\ Present(near_term, "temperature", current_temp) # <<>>
    /\ current_temp = None

analyze_pressure_trends(near_term, current_pressure) ==
    LET pressures == Present(near_term, "pressure", current_pressure)
        pressure_change == V(pressures[Len(pressures)]) - V(current_pressure)
    IN  IF pressures = <<>> THEN Insights(<<>>, <<>>)
        ELSE IF pressure_change > U(2)
        THEN Insights(<<"pressure_rising">>,
                 <<Highlight("Pressure increasing by", <<pressure_change>>)>>)
        ELSE IF pressure_change < -U(2)
        THEN Insights(<<"pressure_dropping">>,
                 <<Highlight("Pressure dropping by", <<Abs(pressure_change)>>)>>)
        ELSE IF Abs(pressure_change) > Half
        THEN IF pressure_change > 0
             THEN Insights(<<>>, <<Highlight("Slight pressure rise of", <<pressure_change>>)>>)
             ELSE Insights(<<>>, <<Highlight("Slight pressure drop of", <<Abs(pressure_change)>>)>>)
        ELSE Insights(<<>>, <<>>)

\* TypeError on "pressures[-1] - None"
analyze_pressure_trends_raises(near_term, current_pressure) ==
    /\ Present(near_term, "pressure", current_pressure) # <<>>
    /\ current_pressure = None

\* current_weather.get("temperature", 0) if current_weather else 0
CurrentOr(current_weather, k, default) ==
    IF Truthy(current_weather) THEN Get(current_weather.val, k, default) ELSE default

EntryTemp(f, default_temp) == V(Get(f, "temperature", default_temp))

EntryPrecip(f) == V(Get(f, "precipitation_mm", Num(0)))

\* entries with f.get("temperature", d) < 2 and f.get("precipitation_mm", 0) > 0
ColdHours(entries, default_temp) ==
    {i \in DOMAIN entries :
        EntryTemp(entries[i], default_temp) < U(2) /\ EntryPrecip(entries[i]) > 0}

\* entries with f.get("temperature", d) > 4 and f.get("precipitation_mm", 0) > 0
WarmHours(entries, default_temp) ==
    {i \in DOMAIN entries :
        EntryTemp(entries[i], default_temp) > U(4) /\ EntryPrecip(entries[i]) > 0}

\* entries with 2 <= f.get("temperature", d) <= 4 and f.get("precipitation_mm", 0) > 0
MixHours(entries, default_temp) ==
    {i \in DOMAIN entries :
        /\ U(2) <= EntryTemp(entries[i], default_temp)
        /\ EntryTemp(entries[i], default_temp) <= U(4)
        /\ EntryPrecip(entries[i]) > 0}

\* Mutant: the next 3 hours are tested before the whole window.
analyze_precipitation_trends_SoonFirst(near_term, current_weather) ==
    LET precipitations == Field(near_term, "precipitation_mm", Num(0))
        precipitation_probs == Field(near_term, "precipitation_probability", Num(0))
        total_precip == SumSeq([i \in DOMAIN precipitations |-> V(precipitations[i])])
        max_precip_prob ==
            MaxSeq([i \in DOMAIN precipitation_probs |-> V(precipitation_probs[i])])
        current_temp == CurrentOr(current_weather, "temperature", Num(0))
        cold == Cardinality(ColdHours(near_term, current_temp))
        warm == Cardinality(WarmHours(near_term, current_temp))
        mix == Cardinality(MixHours(near_term, current_temp))
        args == <<total_precip, Hours(near_term)>>
        typed ==
            IF cold > warm /\ cold > mix
            THEN Insights(<<"snow_precipitation_expected">>,
                          <<Highlight("mm of snow expected in next", args)>>)
            ELSE IF mix > 0
            THEN Insights(<<"mix_precipitation_expected">>,
                          <<Highlight("mm of mixed rain/snow expected in next", args)>>)
            ELSE Insights(<<"precipitation_expected">>,
                          <<Highlight("mm of rain expected in next", args)>>)
        probability ==
            IF max_precip_prob > U(50)
            THEN <<Highlight("High confidence in precipitation forecast", <<max_precip_prob>>)>>
            ELSE IF max_precip_prob > U(20)
            THEN <<Highlight("chance of precipitation", <<max_precip_prob>>)>>
            ELSE <<>>
    IN  IF \E i \in 1..Min2(3, Len(near_term)) : V(precipitations[i]) > 0
        THEN Insights(<<"precipitation_soon">>,
                      <<Highlight("Precipitation expected in next 3 hours", <<>>)>>)
        ELSE IF \E i \in DOMAIN precipitations : V(precipitations[i]) > 0
        THEN Insights(typed.conditions, typed.highlights \o probability)
        ELSE IF /\ V(Get(current_weather.val, "precipitation_mm", Num(0))) > 0
                /\ \A i \in DOMAIN precipitations : V(precipitations[i]) = 0
        THEN Insights(<<"clearing_trend">>,
                      <<Highlight("Precipitation clearing - weather improving", <<>>)>>)
        ELSE Insights(<<>>, <<>>)

analyze_precipitation_trends(near_term, current_weather) ==
    LET precipitations == Field(near_term, "precipitation_mm", Num(0))
        precipitation_probs == Field(near_term, "precipitation_probability", Num(0))
        total_precip == SumSeq([i \in DOMAIN precipitations |-> V(precipitations[i])])
        max_precip_prob ==
            MaxSeq([i \in DOMAIN precipitation_probs |-> V(precipitation_probs[i])])
        current_temp == CurrentOr(current_weather, "temperature", Num(0))
        cold == Cardinality(ColdHours(near_term, current_temp))
        warm == Cardinality(WarmHours(near_term, current_temp))
        mix == Cardinality(MixHours(near_term, current_temp))
        args == <<total_precip, Hours(near_term)>>
        typed ==
            IF cold > warm /\ cold > mix
            THEN Insights(<<"snow_precipitation_expected">>,
                          <<Highlight("mm of snow expected in next", args)>>)
            ELSE IF mix > 0
            THEN Insights(<<"mix_precipitation_expected">>,
                          <<Highlight("mm of mixed rain/snow expected in next", args)>>)
            ELSE Insights(<<"precipitation_expected">>,
                          <<Highlight("mm of rain expected in next", args)>>)
        probability ==
            IF max_precip_prob > U(50)
            THEN <<Highlight("High confidence in precipitation forecast", <<max_precip_prob>>)>>
            ELSE IF max_precip_prob > U(20)
            THEN <<Highlight("chance of precipitation", <<max_precip_prob>>)>>
            ELSE <<>>
    IN  IF \E i \in DOMAIN precipitations : V(precipitations[i]) > 0
        THEN Insights(typed.conditions, typed.highlights \o probability)
        ELSE IF \E i \in 1..Min2(3, Len(near_term)) : V(precipitations[i]) > 0
        THEN Insights(<<"precipitation_soon">>,
                      <<Highlight("Precipitation expected in next 3 hours", <<>>)>>)
        ELSE IF /\ V(Get(current_weather.val, "precipitation_mm", Num(0))) > 0
                /\ \A i \in DOMAIN precipitations : V(precipitations[i]) = 0
        THEN Insights(<<"clearing_trend">>,
                      <<Highlight("Precipitation clearing - weather improving", <<>>)>>)
        ELSE Insights(<<>>, <<>>)

\* TypeError: "None > 0" in any() or "0 + None" in sum(); comparing or
\* formatting a None probability; "None < 2" on an entry's temperature (its
\* own None, or the current reading's None standing in for a missing key);
\* "None > 0" on the current precipitation.
analyze_precipitation_trends_raises(near_term, current_weather) ==
    LET precipitations == Field(near_term, "precipitation_mm", Num(0))
        current_temp == CurrentOr(current_weather, "temperature", Num(0))
    IN  \/ \E i \in DOMAIN precipitations : precipitations[i] = None
        \/ /\ \E i \in DOMAIN precipitations : V(precipitations[i]) > 0
           /\ \/ \E i \in DOMAIN near_term :
                    Get(near_term[i], "precipitation_probability", Num(0)) = None
              \/ \E i \in DOMAIN near_term :
                    Get(near_term[i], "temperature", current_temp) = None
        \/ /\ \A i \in DOMAIN precipitations : V(precipitations[i]) <= 0
           /\ Get(current_weather.val, "precipitation_mm", Num(0)) = None

\* Mutant: a maximum of exactly 12 m/s already gives the warning.
analyze_wind_trends_From12(near_term, current_weather) ==
    LET winds == Present(near_term, "wind_speed", Num(0))
        speeds == [i \in DOMAIN winds |-> V(winds[i])]
        current_wind == Get(current_weather.val, "wind_speed", None)
        max_wind == MaxSeq(speeds)
        min_wind == MinSeq(speeds)
        wind_change == IF current_wind # None THEN max_wind - V(current_wind) ELSE 0
        wind_change_min == IF current_wind # None THEN min_wind - V(current_wind) ELSE 0
        increase ==
            IF max_wind >= U(12)
            THEN Insights(<<"high_wind_warning_forecast">>,
                     <<Highlight("Strong winds up to", <<max_wind, Hours(near_term)>>)>>)
            ELSE IF wind_change > U(3)
            THEN Insights(<<"increasing_wind_forecast">>,
                     <<Highlight("Wind speeds increasing to", <<max_wind, Hours(near_term)>>)>>)
            ELSE IF wind_change > 3 * Half
            THEN Insights(<<>>, <<Highlight("Wind speeds increasing to", <<max_wind>>)>>)
            ELSE Insights(<<>>, <<>>)
        decrease ==
            IF wind_change_min < -(3 * Half)
            THEN <<Highlight("Wind speeds decreasing to", <<min_wind>>)>>
            ELSE <<>>
    IN  IF winds = <<>> THEN Insights(<<>>, <<>>)
        ELSE Insights(increase.conditions, increase.highlights \o decrease)

analyze_wind_trends(near_term, current_weather) ==
    LET winds == Present(near_term, "wind_speed", Num(0))
        speeds == [i \in DOMAIN winds |-> V(winds[i])]
        current_wind == Get(current_weather.val, "wind_speed", None)
        max_wind == MaxSeq(speeds)
        min_wind == MinSeq(speeds)
        wind_change == IF current_wind # None THEN max_wind - V(current_wind) ELSE 0
        wind_change_min == IF current_wind # None THEN min_wind - V(current_wind) ELSE 0
        increase ==
            IF max_wind > U(12)
            THEN Insights(<<"high_wind_warning_forecast">>,
                     <<Highlight("Strong winds up to", <<max_wind, Hours(near_term)>>)>>)
            ELSE IF wind_change > U(3)
            THEN Insights(<<"increasing_wind_forecast">>,
                     <<Highlight("Wind speeds increasing to", <<max_wind, Hours(near_term)>>)>>)
            ELSE IF wind_change > 3 * Half
            THEN Insights(<<>>, <<Highlight("Wind speeds increasing to", <<max_wind>>)>>)
            ELSE Insights(<<>>, <<>>)
        decrease ==
            IF wind_change_min < -(3 * Half)
            THEN <<Highlight("Wind speeds decreasing to", <<min_wind>>)>>
            ELSE <<>>
    IN  IF winds = <<>> THEN Insights(<<>>, <<>>)
        ELSE Insights(increase.conditions, increase.highlights \o decrease)

\* The average is kept as the pair (sum - n * current, n): avg - current > 10
\* iff sum - n * current > 10 * n.
analyze_humidity_trends(near_term, current_weather) ==
    LET current_humidity == Get(current_weather.val, "humidity", None)
        humidities == Present(near_term, "humidity", Get(current_weather.val, "humidity", Num(0)))
        n == Len(humidities)
        total == SumSeq([i \in DOMAIN humidities |-> V(humidities[i])])
        humidity_change == IF current_humidity # None THEN total - n * V(current_humidity) ELSE 0
    IN  IF humidities = <<>> THEN Insights(<<>>, <<>>)
        ELSE IF humidity_change > U(10) * n
        THEN Insights(<<>>, <<Highlight("Humidity increasing significantly", <<humidity_change, n>>)>>)
        ELSE IF humidity_change < -(U(10) * n)
        THEN Insights(<<>>, <<Highlight("Humidity decreasing significantly", <<humidity_change, n>>)>>)
        ELSE Insights(<<>>, <<>>)

-----------------------------------------------------------------------------
(* Medium-term detectors (first 48 forecast entries) *)

analyze_medium_term_temperature(medium_term) ==
    LET present == Present(medium_term, "temperature", None)
        temps_medium == [i \in DOMAIN present |-> V(present[i])]
        max_temp == MaxSeq(temps_medium)
        min_temp == MinSeq(temps_medium)
        temp_range == max_temp - min_temp
        swing ==
            IF temp_range > U(8)
            THEN <<Highlight("Large temperature swing of", <<temp_range>>)>>
            ELSE IF temp_range > U(5)
            THEN <<Highlight("Moderate temperature swing of", <<temp_range>>)>>
            ELSE <<>>
        high == IF max_temp > U(25)
                THEN <<Highlight("High of", <<max_temp>>)>> ELSE <<>>
        low == IF min_temp < U(5)
               THEN <<Highlight("Low of", <<min_temp>>)>> ELSE <<>>
        freezing == IF min_temp < 0
                    THEN <<Highlight("Freezing temperatures down to", <<min_temp>>)>>
                    ELSE <<>>
    IN  IF present = <<>> THEN [highlights |-> <<>>]
        ELSE [highlights |-> swing \o high \o low \o freezing]

\* Mutant: the clearing test looks at the whole forecast instead of
\* forecast_data[:12].
analyze_medium_term_precipitation_WholeForecast(medium_term, forecast_data) ==
    LET total_precip_medium ==
            SumSeq([i \in DOMAIN medium_term |-> EntryPrecip(medium_term[i])])
        cold_hours == Cardinality(ColdHours(medium_term, Num(U(10))))
        warm_hours == Cardinality(WarmHours(medium_term, Num(U(10))))
        mix_hours == Cardinality(MixHours(medium_term, Num(U(10))))
        highlights ==
            IF total_precip_medium > 0
            THEN IF cold_hours > warm_hours /\ cold_hours > mix_hours
                 THEN <<Highlight("Snow expected in next 48 hours", <<total_precip_medium>>)>>
                 ELSE IF mix_hours > 0
                 THEN <<Highlight("Mixed precipitation expected in next 48 hours",
                                  <<total_precip_medium>>)>>
                 ELSE IF total_precip_medium > U(10)
                 THEN <<Highlight("Heavy rain expected in next 48 hours",
                                  <<total_precip_medium>>)>>
                 ELSE <<Highlight("Rain expected in next 48 hours", <<total_precip_medium>>)>>
            ELSE IF /\ total_precip_medium = 0
                    /\ \E i \in DOMAIN forecast_data :
                          EntryPrecip(forecast_data[i]) > 0
            THEN <<Highlight("Precipitation clearing in next 48 hours", <<>>)>>
            ELSE <<>>
    IN  Insights(<<>>, highlights)

\* Mutant: the total is taken over the hours after the near term
\* (medium_term[12:]).
analyze_medium_term_precipitation_AfterNearTerm(medium_term, forecast_data) ==
    LET total_precip_medium ==
            SumSeq([i \in DOMAIN medium_term |->
                       IF i > 12 THEN EntryPrecip(medium_term[i]) ELSE 0])
        cold_hours == Cardinality(ColdHours(medium_term, Num(U(10))))
        warm_hours == Cardinality(WarmHours(medium_term, Num(U(10))))
        mix_hours == Cardinality(MixHours(medium_term, Num(U(10))))
        highlights ==
            IF total_precip_medium > 0
            THEN IF cold_hours > warm_hours /\ cold_hours > mix_hours
                 THEN <<Highlight("Snow expected in next 48 hours", <<total_precip_medium>>)>>
                 ELSE IF mix_hours > 0
                 THEN <<Highlight("Mixed precipitation expected in next 48 hours",
                                  <<total_precip_medium>>)>>
                 ELSE IF total_precip_medium > U(10)
                 THEN <<Highlight("Heavy rain expected in next 48 hours",
                                  <<total_precip_medium>>)>>
                 ELSE <<Highlight("Rain expected in next 48 hours", <<total_precip_medium>>)>>
            ELSE IF /\ total_precip_medium = 0
                    /\ \E i \in DOMAIN Take(forecast_data, 12) :
                          EntryPrecip(forecast_data[i]) > 0
            THEN <<Highlight("Precipitation clearing in next 48 hours", <<>>)>>
            ELSE <<>>
    IN  Insights(<<>>, highlights)

analyze_medium_term_precipitation(medium_term, forecast_data) ==
    LET total_precip_medium ==
            SumSeq([i \in DOMAIN medium_term |-> EntryPrecip(medium_term[i])])
        cold_hours == Cardinality(ColdHours(medium_term, Num(U(10))))
        warm_hours == Cardinality(WarmHours(medium_term, Num(U(10))))
        mix_hours == Cardinality(MixHours(medium_term, Num(U(10))))
        highlights ==
            IF total_precip_medium > 0
            THEN IF cold_hours > warm_hours /\ cold_hours > mix_hours
                 THEN <<Highlight("Snow expected in next 48 hours", <<total_precip_medium>>)>>
                 ELSE IF mix_hours > 0
                 THEN <<Highlight("Mixed precipitation expected in next 48 hours",
                                  <<total_precip_medium>>)>>
                 ELSE IF total_precip_medium > U(10)
                 THEN <<Highlight("Heavy rain expected in next 48 hours",
                                  <<total_precip_medium>>)>>
                 ELSE <<Highlight("Rain expected in next 48 hours", <<total_precip_medium>>)>>
            ELSE IF /\ total_precip_medium = 0
                    /\ \E i \in DOMAIN Take(forecast_data, 12) :
                          EntryPrecip(forecast_data[i]) > 0
            THEN <<Highlight("Precipitation clearing in next 48 hours", <<>>)>>
            ELSE <<>>
    IN  Insights(<<>>, highlights)

\* TypeError: "0 + None" in sum(), or "None < 2" on an entry's temperature
analyze_medium_term_precipitation_raises(medium_term, forecast_data) ==
    \/ \E i \in DOMAIN medium_term : Get(medium_term[i], "precipitation_mm", Num(0)) = None
    \/ \E i \in DOMAIN medium_term : Get(medium_term[i], "temperature", Num(U(10))) = None

\* The average is compared as a sum: avg > 8 iff sum > 8 * n.
analyze_medium_term_wind(medium_term) ==
    LET present == Present(medium_term, "wind_speed", Num(0))
        winds_medium == [i \in DOMAIN present |-> V(present[i])]
        n == Len(winds_medium)
        max_wind_medium == MaxSeq(winds_medium)
        total == SumSeq(winds_medium)
    IN  IF present = <<>> THEN Insights(<<>>, <<>>)
        ELSE IF max_wind_medium > U(18)
        THEN Insights(<<"high_wind_warning">>,
                 <<Highlight("Strong winds expected in next 48 hours", <<max_wind_medium>>)>>)
        ELSE IF max_wind_medium > U(12)
        THEN Insights(<<>>,
                 <<Highlight("Moderate winds expected in next 48 hours", <<max_wind_medium>>)>>)
        ELSE IF total > U(8) * n
        THEN Insights(<<>>, <<Highlight("Sustained moderate winds expected", <<total, n>>)>>)
        ELSE Insights(<<>>, <<>>)

analyze_medium_term_pressure(medium_term, current_pressure) ==
    LET pressures_medium == Present(medium_term, "pressure", current_pressure)
        pressure_trend ==
            V(pressures_medium[Len(pressures_medium)]) - V(pressures_medium[1])
    IN  IF Len(pressures_medium) <= 1 THEN Insights(<<>>, <<>>)
        ELSE IF pressure_trend < -U(5)
        THEN Insights(IF pressure_trend < -U(10) THEN <<"storm_prediction">> ELSE <<>>,
                 <<Highlight("Pressure drop - changing weather expected in next 48 hours",
                             <<pressure_trend>>)>>)
        ELSE IF pressure_trend > U(5)
        THEN Insights(<<>>,
                 <<Highlight("Pressure rise - improving weather expected in next 48 hours",
                             <<pressure_trend>>)>>)
        ELSE IF Abs(pressure_trend) > U(1)
        THEN Insights(<<>>,
                 <<Highlight(IF pressure_trend > 0 THEN "Small rise in pressure expected"
                             ELSE "Small drop in pressure expected", <<pressure_trend>>)>>)
        ELSE Insights(<<>>, <<>>)

-----------------------------------------------------------------------------
(* analyze_forecast_trends *)

NearTermWindow == 12

MediumTermWindow == 48

MediumTermMinimum == 24

\* Mutant: the tags of the medium-term wind and pressure detectors are merged
\* as well.
MediumTermConditions_AllDetectors(precip_medium_insights, wind_medium_insights, pressure_medium_insights) ==
    precip_medium_insights.conditions \o wind_medium_insights.conditions
        \o pressure_medium_insights.conditions

\* Which medium-term detectors' tags line 683 merges into insights["conditions"]:
\* the precipitation detector's only (its list is always empty); the tags the
\* wind and pressure detectors compute are not merged.
MediumTermConditions(precip_medium_insights, wind_medium_insights, pressure_medium_insights) ==
    precip_medium_insights.conditions

\* Mutant: the medium-term analysis starts at 24 entries ("len >= 24").
MediumTermRuns_Inclusive(medium_term) == Len(medium_term) >= MediumTermMinimum

\* "if len(medium_term) > 24"
MediumTermRuns(medium_term) == Len(medium_term) > MediumTermMinimum

analyze_forecast_trends(forecast_data, current_weather) ==
    LET current_temp == CurrentOr(current_weather, "temperature", Num(0))
        current_pressure == CurrentOr(current_weather, "pressure", Num(U(1013)))
        near_term == Take(forecast_data, NearTermWindow)
        temp_insights == analyze_temperature_trends(near_term, current_temp)
        pressure_insights == analyze_pressure_trends(near_term, current_pressure)
        precip_insights == analyze_precipitation_trends(near_term, current_weather)
        wind_insights == analyze_wind_trends(near_term, current_weather)
        humidity_insights == analyze_humidity_trends(near_term, current_weather)
        near ==
            IF Len(near_term) > 0
            THEN Insights(
                     temp_insights.conditions \o pressure_insights.conditions
                         \o precip_insights.conditions \o wind_insights.conditions
                         \o humidity_insights.conditions,
                     temp_insights.highlights \o pressure_insights.highlights
                         \o precip_insights.highlights \o wind_insights.highlights
                         \o humidity_insights.highlights)
            ELSE Insights(<<>>, <<>>)
        medium_term == Take(forecast_data, MediumTermWindow)
        temp_medium_insights == analyze_medium_term_temperature(medium_term)
        precip_medium_insights ==
            analyze_medium_term_precipitation(medium_term, forecast_data)
        wind_medium_insights == analyze_medium_term_wind(medium_term)
        pressure_medium_insights ==
            analyze_medium_term_pressure(medium_term, current_pressure)
        medium ==
            IF MediumTermRuns(medium_term)
            THEN Insights(
                     MediumTermConditions(precip_medium_insights, wind_medium_insights,
                                          pressure_medium_insights),
                     temp_medium_insights.highlights \o precip_medium_insights.highlights
                         \o wind_medium_insights.highlights
                         \o pressure_medium_insights.highlights)
            ELSE Insights(<<>>, <<>>)
    IN  IF Len(forecast_data) = 0 THEN Insights(<<>>, <<>>)
        ELSE Insights(near.conditions \o medium.conditions,
                      near.highlights \o medium.highlights)

analyze_forecast_trends_raises(forecast_data, current_weather) ==
    LET current_temp == CurrentOr(current_weather, "temperature", Num(0))
        current_pressure == CurrentOr(current_weather, "pressure", Num(U(1013)))
        near_term == Take(forecast_data, NearTermWindow)
        medium_term == Take(forecast_data, MediumTermWindow)
    IN  /\ Len(forecast_data) > 0
        /\ \/ analyze_temperature_trends_raises(near_term, current_temp)
           \/ analyze_pressure_trends_raises(near_term, current_pressure)
           \/ analyze_precipitation_trends_raises(near_term, current_weather)
           \/ /\ MediumTermRuns(medium_term)
              /\ analyze_medium_term_precipitation_raises(medium_term, forecast_data)

-----------------------------------------------------------------------------
(* analyze_patterns *)

\* ', '.join(conditions)
RECURSIVE Join(_)
Join(conditions) ==
    IF Len(conditions) = 0 THEN ""
    ELSE IF Len(conditions) = 1 THEN conditions[1]
    ELSE conditions[1] \o ", " \o Join(Tail(conditions))

\* Mutant: a single tag is announced in the singular ("1 notable condition").
Summary_Singular(conditions) ==
    IF Len(conditions) = 0 THEN "Normal weather conditions"
    ELSE IF Len(conditions) = 1 THEN "Detected 1 notable condition: " \o conditions[1]
    ELSE "Detected " \o ToString(Len(conditions)) \o " notable conditions: "
             \o Join(conditions)

Summary(conditions) ==
    IF Len(conditions) = 0 THEN "Normal weather conditions"
    ELSE "Detected " \o ToString(Len(conditions)) \o " notable conditions: "
             \o Join(conditions)

\* the exception that leaves analyze_patterns
Raised == [raised |-> TRUE]

Returned(r) == "status" \in DOMAIN r

NoData ==
    [status |-> "No data to analyze", patterns_detected |-> 0,
     trend |-> "unknown", data_points |-> 0]

\* Mutant: only None is taken for "no data" ("if data is None").
IsFalsy_OnlyNone(d) == d.type = "NoneType"

\* "if not data"
IsFalsy(d) == ~Truthy(d)

\* the temperature, humidity and pressure the current classifiers read
CurrentField(current_weather, k) ==
    IF IsDict(current_weather) THEN Get(current_weather.val, k, None) ELSE None

CurrentPrecipitation(current_weather) ==
    IF IsDict(current_weather)
    THEN Get(current_weather.val, "precipitation_mm", Num(0)) ELSE Num(0)

\* Mutant: the detailed analysis is appended before the precipitation tag.
CurrentConditions_DetailedFirst(current_weather) ==
    analyze_temperature_conditions(CurrentField(current_weather, "temperature"))
        \o analyze_humidity_conditions(CurrentField(current_weather, "humidity"))
        \o analyze_pressure_conditions(CurrentField(current_weather, "pressure"))
        \o analyze_detailed_weather_conditions(current_weather)
        \o analyze_precipitation_conditions(CurrentPrecipitation(current_weather),
                                            current_weather)

CurrentConditions(current_weather) ==
    analyze_temperature_conditions(CurrentField(current_weather, "temperature"))
        \o analyze_humidity_conditions(CurrentField(current_weather, "humidity"))
        \o analyze_pressure_conditions(CurrentField(current_weather, "pressure"))
        \o analyze_precipitation_conditions(CurrentPrecipitation(current_weather),
                                            current_weather)
        \o analyze_detailed_weather_conditions(current_weather)

\* conditions after conditions.extend(forecast_insights.get("conditions", []))
ConditionsDetected(current_conditions, trend_conditions) ==
    current_conditions \o trend_conditions

\* Mutant: the count is taken before the trend tags are folded in.
PatternsDetected_BeforeForecast(current_conditions, trend_conditions) ==
    Len(current_conditions)

\* analysis["patterns_detected"] = len(conditions), taken after the trend tags
\* are folded in
PatternsDetected(current_conditions, trend_conditions) ==
    Len(ConditionsDetected(current_conditions, trend_conditions))

\* Mutant: "<= 2" for "< 2".
Trend_OffByOne(data_points) ==
    IF data_points <= 2 THEN "insufficient_data" ELSE "analyzing"

\* the trend field of the basic analysis
Trend(data_points) == IF data_points < 2 THEN "insufficient_data" ELSE "analyzing"

\* Mutant: the current reading is not counted.
DataPoints_ForecastOnly(forecast_data) == Len(forecast_data)

\* 1 + len(forecast_data)
DataPoints(forecast_data) == 1 + Len(forecast_data)

analyze_patterns_raises(d) ==
    LET x == extract_weather_data(d)
    IN  /\ ~IsFalsy(d)
        /\ \/ analyze_precipitation_conditions_raises(
                  CurrentPrecipitation(x.current_weather), x.current_weather)
           \/ analyze_detailed_weather_conditions_raises(x.current_weather)
           \/ analyze_forecast_trends_raises(x.forecast_data, x.current_weather)

analyze_patterns(d) ==
    IF IsFalsy(d) THEN NoData
    ELSE IF analyze_patterns_raises(d) THEN Raised
    ELSE
    LET x == extract_weather_data(d)
        current_weather == x.current_weather
        forecast_data == x.forecast_data
        data_points == DataPoints(forecast_data)
        forecast_insights ==
            IF Len(forecast_data) > 0
            THEN analyze_forecast_trends(forecast_data, current_weather)
            ELSE <<>>
        trend_conditions ==
            IF Len(forecast_data) > 0 THEN forecast_insights.conditions ELSE <<>>
        conditions ==
            ConditionsDetected(CurrentConditions(current_weather), trend_conditions)
        analysis ==
            [status |-> "Analysis complete",
             data_points |-> data_points,
             timestamp |-> IF IsDict(current_weather)
                           THEN Get(current_weather.val, "timestamp", "unknown")
                           ELSE "unknown",
             patterns_detected |->
                 PatternsDetected(CurrentConditions(current_weather), trend_conditions),
             trend |-> Trend(data_points),
             forecast_hours |-> Len(forecast_data),
             conditions_detected |-> conditions,
             forecast_insights |-> forecast_insights,
             summary |-> Summary(conditions)]
    IN  IF Len(forecast_data) > 0
        THEN analysis @@ [forecast_highlights |-> forecast_insights.highlights]
        ELSE analysis

\* the utilities that a specification leaves idle
UtilitiesIdle ==
    /\ cache = <<>>
    /\ translated = <<>>
    /\ collector = <<>>
    /\ timeseries = <<>>

\* the analyzer, idle
AnalyzerIdle ==
    /\ data = PyNone
    /\ result = <<>>
    /\ pc = "idle"
    /\ history = <<>>

-----------------------------------------------------------------------------
(* utils/translations.py: the table of condition tags and translate_code   *)
(* as the display calls it, translate_code(condition, 'condition').  The   *)
(* texts are written without their leading emoji, and the question-mark    *)
(* emoji of the fallback is written "?".                                   *)

\* the entries of CONDITION_MAP for the tags of the current reading
CurrentConditionTexts ==
       ("freezing_temperature" :> "Freezing conditions")
    @@ ("hot_temperature" :> "Hot weather")
    @@ ("comfortable_temperature" :> "Comfortable temperature")
    @@ ("very_cold_temperature" :> "Very cold conditions")
    @@ ("warm_temperature" :> "Warm conditions")
    @@ ("high_humidity" :> "Very humid")
    @@ ("moderate_humidity" :> "Moderately humid")
    @@ ("low_humidity" :> "Very dry")
    @@ ("low_pressure" :> "Low pressure (storm possible)")
    @@ ("high_pressure" :> "High pressure (stable weather)")
    @@ ("below_average_pressure" :> "Below average pressure")
    @@ ("above_average_pressure" :> "Above average pressure")
    @@ ("light_precipitation" :> "Light rain/snow")
    @@ ("moderate_precipitation" :> "Moderate rain/snow")
    @@ ("heavy_precipitation" :> "Heavy rain/snow")
    @@ ("potential_precipitation" :> "Potential precipitation")
    @@ ("high_wind_warning" :> "High wind warning")
    @@ ("moderate_wind_warning" :> "Moderate wind warning")
    @@ ("light_wind_condition" :> "Light wind condition")
    @@ ("freezing_precipitation_warning" :> "Freezing precipitation (ice) warning")
    @@ ("snow_rain_mix_warning" :> "Snow/rain mix (sleet) warning")
    @@ ("very_high_precipitation_probability" :> "Very high chance of precipitation")
    @@ ("high_precipitation_probability" :> "High chance of precipitation")
    @@ ("moderate_precipitation_probability" :> "Moderate chance of precipitation")
    @@ ("overcast_conditions" :> "Overcast conditions")
    @@ ("mostly_cloudy" :> "Mostly cloudy")
    @@ ("partly_cloudy" :> "Partly cloudy")
    @@ ("clear_sky_conditions" :> "Clear sky conditions")
    @@ ("humid_and_warm_condition" :> "Humid and warm conditions")

\* the entries of CONDITION_MAP for the tags of the forecast
ForecastConditionTexts ==
       ("snow_precipitation_expected" :> "Snow expected")
    @@ ("mix_precipitation_expected" :> "Mixed rain/snow expected")
    @@ ("high_wind_warning_forecast" :> "High wind warning forecast")
    @@ ("increasing_wind_forecast" :> "Increasing wind forecast")
    @@ ("storm_warning" :> "Storm warning")
    @@ ("storm_prediction" :> "Storm prediction")
    @@ ("clearing_trend" :> "Clearing trend")
    @@ ("warming_trend" :> "Temperature rising")
    @@ ("cooling_trend" :> "Temperature dropping")
    @@ ("pressure_rising" :> "Pressure increasing")
    @@ ("pressure_dropping" :> "Pressure dropping")
    @@ ("precipitation_expected" :> "Rain/snow expected")
    @@ ("precipitation_soon" :> "Precipitation coming soon")
    @@ ("light_precipitation_trend" :> "Light precipitation expected")

\* Mutant: the table without the entries for the forecast.
CONDITION_MAP_CurrentOnly == CurrentConditionTexts

CONDITION_MAP == CurrentConditionTexts @@ ForecastConditionTexts

\* translate_code(code, 'condition')
translate_condition(code) ==
    IF code = "" THEN "Unknown"
    ELSE IF code \in DOMAIN CONDITION_MAP THEN CONDITION_MAP[code]
    ELSE "? " \o code

\* the weather symbols of the forecast service and their texts
WEATHER_SYMBOL_MAP ==
       ("clearsky_day" :> "Clear sky")
    @@ ("clearsky_night" :> "Clear night")
    @@ ("fair_day" :> "Fair weather")
    @@ ("fair_night" :> "Fair night")
    @@ ("partlycloudy_day" :> "Partly cloudy")
    @@ ("partlycloudy_night" :> "Partly cloudy night")
    @@ ("cloudy" :> "Cloudy")
    @@ ("rainshowers_day" :> "Rain showers")
    @@ ("rainshowers_night" :> "Night showers")
    @@ ("rain" :> "Rain")
    @@ ("lightrain" :> "Light rain")
    @@ ("heavyrain" :> "Heavy rain")
    @@ ("drizzle" :> "Drizzle")
    @@ ("snow" :> "Snow")
    @@ ("lightsnow" :> "Light snow")
    @@ ("heavysnow" :> "Heavy snow")
    @@ ("sleet" :> "Sleet")
    @@ ("snowshowers_day" :> "Snow showers")
    @@ ("thunderstorm" :> "Thunderstorm")
    @@ ("fog" :> "Fog")
    @@ ("mist" :> "Mist")

TRANSLATION_MAPS ==
    [weather_symbol |-> WEATHER_SYMBOL_MAP, condition |-> CONDITION_MAP]

UpperCaseLetters == "ABCDEFGHIJKLMNOPQRSTUVWXYZ"

LowerCaseLetters == "abcdefghijklmnopqrstuvwxyz"

\* str.lower() on a code
RECURSIVE str_lower(_)
str_lower(code) ==
    IF Len(code) = 0 THEN ""
    ELSE LET ch == SubSeq(code, 1, 1)
             up == {i \in 1..Len(UpperCaseLetters) : SubSeq(UpperCaseLetters, i, i) = ch}
         IN  (IF up = {} THEN ch
              ELSE LET i == CHOOSE j \in up : TRUE IN SubSeq(LowerCaseLetters, i, i))
             \o str_lower(SubSeq(code, 2, Len(code)))

\* part in text
Contains(text, part) ==
    \E i \in 1..(Len(text) - Len(part) + 1) :
        SubSeq(text, i, i + Len(part) - 1) = part

\* translate_code(code, code_type), for a code that is a string
translate_code(code, code_type) ==
    IF code = "" THEN "Unknown"
    ELSE LET translation_map == Get(TRANSLATION_MAPS, code_type, <<>>)
         IN  IF code \in DOMAIN translation_map THEN translation_map[code]
             ELSE IF code_type = "weather_symbol"
                  THEN IF Contains(str_lower(code), "clear") THEN "Clear"
                       ELSE IF Contains(str_lower(code), "cloud") THEN "Cloudy"
                       ELSE IF Contains(str_lower(code), "rain") THEN "Rain"
                       ELSE IF Contains(str_lower(code), "snow") THEN "Snow"
                       ELSE IF Contains(str_lower(code), "storm") THEN "Storm"
                       ELSE IF \/ Contains(str_lower(code), "fog")
                               \/ Contains(str_lower(code), "mist") THEN "Fog"
                       ELSE "? " \o code
                  ELSE IF code_type = "condition" THEN "? " \o code
                  ELSE "? " \o code

\* the codes that are in no table: symbols of the forecast service that
\* WEATHER_SYMBOL_MAP lacks, other spellings, and other words
UnknownCodes ==
    {"RAIN", "Rain", "heavyrain_day", "clearsky_polartwilight", "Cloudy",
     "lightsnowshowers_day", "Storm_warning", "foggy", "MIST", "sleet_day",
     "unknown_weather", "alien_invasion", "unknown_condition", "some_code"}

Codes == DOMAIN WEATHER_SYMBOL_MAP \cup DOMAIN CONDITION_MAP \cup UnknownCodes \cup {""}

CodeTypes == {"weather_symbol", "condition", "unknown_type"}

\* a call of translate_code about to be made
InitTranslate ==
    /\ translated \in {[code |-> c, code_type |-> t, done |-> FALSE, result |-> ""] :
                          c \in Codes, t \in CodeTypes}
    /\ cache = <<>>
    /\ collector = <<>>
    /\ timeseries = <<>>
    /\ AnalyzerIdle

Translate ==
    /\ translated # <<>>
    /\ ~translated.done
    /\ translated' = [translated EXCEPT
                         !.done = TRUE,
                         !.result = translate_code(translated.code, translated.code_type)]
    /\ UNCHANGED <<cache, collector, timeseries>>
    /\ UNCHANGED analyzer_vars

NextTranslate == Translate

SpecTranslate == InitTranslate /\ [][NextTranslate]_vars

-----------------------------------------------------------------------------
(* Inputs.  The arguments analyze_patterns is called with are drawn from    *)
(* families; each is a set of Python values the callers can build.          *)

MaxListLen == 2

MaxForecastLen == 3

MaxNearLen == 3

MaxBeyondWindow == 1

\* the dicts that have key k with a value of vals, or lack the key
Opt(k, vals) == {<<>>} \cup {k :> v : v \in vals}

Cross(A, B) == {a @@ b : a \in A, b \in B}

Rep(e, n) == [i \in 1..n |-> e]

SeqsUpTo(S, n) == UNION {[1..k -> S] : k \in 0..n}

Embedded(c, f) == PyDict(c @@ ("forecast" :> f))

Sibling(c, f) == PyDict(("current_weather" :> PyDict(c)) @@ ("forecast" :> f))

Timestamp == "2025-09-30T12:00:00Z"

\* "rainshowers_day"
RainSymbol == <<"r", "a", "i", "n", "s", "h", "o", "w", "e", "r", "s">>

\* "cloudy"
CloudySymbol == <<"c", "l", "o", "u", "d", "y">>

\* a forecast entry with every metric, warmer, higher pressure and windier than
\* the current readings below, and wet
EntryAll ==
    [temperature |-> Num(U(10)), pressure |-> Num(U(1020)), humidity |-> Num(U(50)),
     wind_speed |-> Num(U(14)), precipitation_mm |-> Num(U(2)),
     precipitation_probability |-> Num(U(60))]

\* an entry with no metric at all
EntryEmpty == <<>>

\* a wet entry without temperature
EntryWet == [precipitation_mm |-> Num(U(2))]

\* an entry as a loader that maps missing keys to None would store it
EntryNone ==
    [temperature |-> None, pressure |-> None, humidity |-> None,
     wind_speed |-> None, precipitation_mm |-> Num(0)]

\* Family 1: every optional numeric field of the current reading is,
\* independently, missing, None (as load_go_collected_data stores a missing
\* temperature, pressure, humidity, wind_speed, cloud_cover) or a number.
OptionalReadings ==
    Cross(Opt("temperature", {None, Num(U(-5)), Num(U(22))}),
    Cross(Opt("humidity", {None, Num(U(95))}),
    Cross(Opt("pressure", {None, Num(U(980))}),
    Cross(Opt("wind_speed", {None, Num(U(10))}),
    Cross(Opt("cloud_cover", {None, Num(U(95))}),
    Cross(Opt("precipitation_mm", {Num(0), Num(U(8))}),
          Opt("precipitation_probability", {Num(U(80))})))))))

OptionalForecasts ==
    {<<>>, <<EntryAll>>, <<EntryEmpty>>, <<EntryWet>>, <<EntryNone>>, <<EntryAll, EntryNone>>}

OptionalInputs == {Embedded(c, f) : c \in OptionalReadings, f \in OptionalForecasts}

\* Family 2: the shapes of the argument.
ShapeReadings ==
    {<<>>,
     [temperature |-> Num(U(22)), humidity |-> Num(U(50)), pressure |-> Num(U(1015)),
      precipitation_mm |-> Num(0), timestamp |-> Timestamp],
     [temperature |-> Num(U(-5)), humidity |-> Num(U(95)), pressure |-> Num(U(980)),
      precipitation_mm |-> Num(U(8)), timestamp |-> Timestamp],
     [temperature |-> Num(U(35)), humidity |-> Num(U(20)), pressure |-> Num(U(1035)),
      precipitation_mm |-> Num(0), symbol_code |-> CloudySymbol],
     [temperature |-> Num(U(3)), precipitation_mm |-> Num(0), symbol_code |-> RainSymbol]}

ShapeForecasts == {Rep(e, n) : e \in {EntryAll, EntryEmpty}, n \in 0..MaxForecastLen}

FalsyInputs == {PyNone, PyList(<<>>), PyDict(<<>>), PyInt(0)}

\* what a list argument can hold: readings with or without a forecast, and a
\* value that is no dict
ListElements ==
    {PyDict(c) : c \in ShapeReadings \ {<<>>}}
        \cup {Embedded(c, f) : c \in {<<>>, [temperature |-> Num(U(22))]},
                               f \in ShapeForecasts}
        \cup {PyInt(5)}

ShapeInputs ==
    FalsyInputs
        \cup {PyDict(c) : c \in ShapeReadings \ {<<>>}}
        \cup {Embedded(c, f) : c \in ShapeReadings, f \in ShapeForecasts}
        \cup {Sibling(c, f) : c \in ShapeReadings, f \in ShapeForecasts}
        \cup {PyList(s) : s \in SeqsUpTo(ListElements, MaxListLen) \ {<<>>}}

\* Family 3: forecasts around the medium-term limits: n entries a, then b,
\* then up to MaxBeyondWindow entries c.
Calm == [temperature |-> Num(U(10)), pressure |-> Num(U(1020)), wind_speed |-> Num(U(5))]

Stormy == [temperature |-> Num(U(10)), pressure |-> Num(U(1008)), wind_speed |-> Num(U(20))]

Breezy == [temperature |-> Num(U(12)), pressure |-> Num(U(1013)), wind_speed |-> Num(U(14))]

Snowy == [temperature |-> Num(U(1)), precipitation_mm |-> Num(U(3))]

MediumEntries == {Calm, Stormy, Breezy, Snowy}

MediumForecasts ==
    {Rep(a, n) \o <<b>> \o Rep(c, k) :
        a \in MediumEntries, b \in MediumEntries, c \in {Stormy},
        n \in {MediumTermMinimum - 1, MediumTermMinimum, MediumTermWindow - 1,
               MediumTermWindow},
        k \in 0..MaxBeyondWindow}

MediumInputs ==
    {Embedded(c, f) :
        c \in {[temperature |-> Num(U(10)), pressure |-> Num(U(1020)),
                wind_speed |-> Num(U(5))]},
        f \in MediumForecasts}

\* Family 4: near-term windows of wet and dry hours in the three temperature
\* bands of the precipitation trend.
ColdWet == [temperature |-> Num(U(1)), precipitation_mm |-> Num(U(2))]

MixWet == [temperature |-> Num(U(3)), precipitation_mm |-> Num(U(2))]

WarmWet == [temperature |-> Num(U(10)), precipitation_mm |-> Num(U(2))]

WarmDry == [temperature |-> Num(U(10)), precipitation_mm |-> Num(0)]

PrecipInputs ==
    {Embedded(c, f) :
        c \in {[temperature |-> Num(U(10))],
               [temperature |-> Num(U(10)), precipitation_mm |-> Num(U(1))]},
        f \in SeqsUpTo({ColdWet, MixWet, WarmWet, WarmDry}, MaxNearLen)}

\* Family 5: every current temperature from -2.0 to 32.0 in quarter degrees.
TemperatureInputs == {PyDict([temperature |-> Num(t)]) : t \in U(-2)..U(32)}

\* Family 6: a current temperature of 10.0 and a forecast that is steady at
\* 10.0 and then ends at 10.0 + d, for every d from -2.0 to 2.0 in quarter
\* degrees; the changed entry is the 1st or the 12th, and it may be followed by
\* an entry without temperature or by a far warmer one.
MaxTrendChange == U(2)

Steady == [temperature |-> Num(U(10))]

NoTemperature == [humidity |-> Num(U(50))]

Heatwave == [temperature |-> Num(U(20))]

TrendForecasts ==
    {Rep(Steady, n) \o <<[temperature |-> Num(U(10) + d)]>> \o tail :
        n \in {0, NearTermWindow - 2, NearTermWindow - 1},
        d \in -MaxTrendChange..MaxTrendChange,
        tail \in {<<>>, <<NoTemperature>>, <<Heatwave>>}}

TrendInputs == {Embedded([temperature |-> Num(U(10))], f) : f \in TrendForecasts}

\* Family 7: every current precipitation from 0.0 to 6.0 in quarter
\* millimetres, or none, with a rain symbol, another symbol or none.
MaxPrecipitation == U(6)

\* "rain"
PlainRainSymbol == RainPrefix

\* "lightrain"
LightRainSymbol == <<"l", "i", "g", "h", "t", "r", "a", "i", "n">>

PrecipitationReadings ==
    Cross(Opt("precipitation_mm", {Num(p) : p \in 0..MaxPrecipitation}),
          Opt("symbol_code", {RainSymbol, PlainRainSymbol, LightRainSymbol, CloudySymbol}))

PrecipitationInputs ==
    {PyDict(c @@ [timestamp |-> Timestamp]) : c \in PrecipitationReadings}

\* Family 8: every current temperature from -1.0 to 5.0 in quarter degrees,
\* or None, or none, with every precipitation from 0.0 to 0.75 in quarter
\* millimetres, or none.
MinIcing == U(-1)

MaxIcing == U(5)

MaxDrizzle == 3

IcingReadings ==
    Cross(Opt("temperature", {None} \cup {Num(t) : t \in MinIcing..MaxIcing}),
          Opt("precipitation_mm", {Num(p) : p \in 0..MaxDrizzle}))

IcingInputs == {PyDict(c @@ [timestamp |-> Timestamp]) : c \in IcingReadings}

\* Family 9: one reading per band of the classifiers that the families
\* above leave out, and a forecast whose wind rises by 4 m/s.
BandReadings ==
    {[humidity |-> Num(U(70))], [pressure |-> Num(U(1005))],
     [pressure |-> Num(U(1025))], [wind_speed |-> Num(U(20))],
     [cloud_cover |-> Num(U(10))], [cloud_cover |-> Num(U(50))],
     [cloud_cover |-> Num(U(80))],
     [precipitation_probability |-> Num(U(30))],
     [precipitation_probability |-> Num(U(50))]}

BandInputs ==
    {PyDict(c) : c \in BandReadings}
        \cup {Embedded([wind_speed |-> Num(U(2))], <<[wind_speed |-> Num(U(6))]>>)}

\* Family 10: a current wind of 8.0 or 10.0 m/s, None or none, and one or
\* two forecast entries whose wind is none, None, 12.0, 12.25, or 8.0 changed
\* by -1.75, -1.5, 0, 1.5, 1.75, 3.0 or 3.25; and twelve entries at 8.0
\* followed by one at 20.0.
WindChanges == {-(3 * Half) - 1, -(3 * Half), 0, 3 * Half, 3 * Half + 1, U(3), U(3) + 1}

WindSpeeds == {U(8) + d : d \in WindChanges} \cup {U(12), U(12) + 1}

WindReadings == Opt("wind_speed", {None, Num(U(8)), Num(U(10))})

WindEntries == Opt("wind_speed", {None} \cup {Num(w) : w \in WindSpeeds})

WindForecasts ==
    SeqsUpTo(WindEntries, MaxListLen)
        \cup {Rep([wind_speed |-> Num(U(8))], NearTermWindow) \o <<[wind_speed |-> Num(U(20))]>>}

WindInputs == {Embedded(c, f) : c \in WindReadings, f \in WindForecasts}

\* Family 11: a reading and a forecast entry to which every classifier and
\* every near-term detector answers with a tag, and a storm now and through
\* the next 25 hours.
Muggy ==
    [temperature |-> Num(U(22)), humidity |-> Num(U(70)), pressure |-> Num(U(1005)),
     precipitation_mm |-> Num(U(1)), wind_speed |-> Num(U(5)),
     cloud_cover |-> Num(U(50)), precipitation_probability |-> Num(U(30))]

Worsening ==
    [temperature |-> Num(U(24)), pressure |-> Num(U(1008)),
     precipitation_mm |-> Num(U(1)), wind_speed |-> Num(U(9))]

FullInputs ==
    {Embedded(Muggy, <<Worsening>>),
     Embedded(Stormy, Rep(Stormy, MediumTermMinimum + 1))}

\* Family 12: temperatures and humidities on and a quarter above the limits
\* of their bands (20, 25, 30 degrees; 60, 80 percent), dry or with rain.
HumidReadings ==
    Cross({[temperature |-> Num(t + d)] : t \in {U(20), U(25), U(30)}, d \in {0, 1}},
    Cross({[humidity |-> Num(h + d)] : h \in {U(60), U(80)}, d \in {0, 1}},
          Opt("precipitation_mm", {Num(U(1))})))

HumidInputs == {PyDict(c) : c \in HumidReadings}

\* Family 13: 25 or 49 hours that begin or end with rain and are dry
\* otherwise, or dry throughout; and, as a forecast with a negative value,
\* rain in the first hour that a negative amount in the 25th cancels.
NegativeRain == [temperature |-> Num(U(10)), precipitation_mm |-> Num(-U(2))]

ClearingForecasts ==
    {<<first>> \o Rep(WarmDry, n - 2) \o <<last>> :
        first \in {WarmWet, WarmDry}, last \in {WarmWet, WarmDry},
        n \in {MediumTermMinimum + 1, MediumTermWindow + 1}}
    \cup {<<WarmWet>> \o Rep(WarmDry, MediumTermMinimum - 1) \o <<NegativeRain>>}

ClearingInputs ==
    {Embedded(c, f) :
        c \in {[temperature |-> Num(U(10))],
               [temperature |-> Num(U(10)), precipitation_mm |-> Num(U(2))]},
        f \in ClearingForecasts}

Inputs ==
    OptionalInputs \cup ShapeInputs \cup MediumInputs \cup PrecipInputs
        \cup TemperatureInputs \cup TrendInputs \cup PrecipitationInputs
        \cup IcingInputs \cup BandInputs \cup WindInputs \cup FullInputs
        \cup HumidInputs \cup ClearingInputs

-----------------------------------------------------------------------------
(* The call: data is the argument, result what the call returned (or Raised) *)

\* Mutant: the call takes the forecast out of a dict argument
\* (data.pop("forecast")).
AfterCall_ForecastPopped(d) ==
    IF IsDict(d) /\ "forecast" \in DOMAIN d.val
    THEN PyDict([k \in DOMAIN d.val \ {"forecast"} |-> d.val[k]])
    ELSE d

\* the argument object once the call is over: no statement of the analyzer
\* assigns to, or calls a mutating method of, the argument or a part of it
AfterCall(d) == d

Init ==
    /\ data \in Inputs
    /\ result = <<>>
    /\ pc = "call"
    /\ history = <<>>
    /\ UtilitiesIdle

Analyze ==
    /\ pc = "call"
    /\ result' = analyze_patterns(data)
    /\ pc' = "return"
    /\ data' = AfterCall(data)
    /\ history' = Append(history, [input |-> data, after |-> data', result |-> result'])
    /\ UNCHANGED utility_vars

Next == Analyze

Spec == Init /\ [][Next]_vars

-----------------------------------------------------------------------------
(* Calls in sequence: the caller calls analyze_patterns again and again,   *)
(* each time with an argument of CallInputs.                               *)

MaxCalls == 3

\* a wind-free entry, so that 48 of them give no medium-term highlight
Still == [temperature |-> Num(U(10)), pressure |-> Num(U(1020))]

\* forecasts of 48 entries and more that agree on the first 48
LongForecasts ==
    {Rep(Still, MediumTermWindow - 1) \o <<b>> \o tail :
        b \in {Still}, tail \in {<<>>, <<Stormy>>, <<Snowy>>}}
    \cup
    {Rep(Still, MediumTermWindow - 1) \o <<b>> \o tail :
        b \in {Stormy}, tail \in {<<>>, <<Snowy>>}}

LongInputs ==
    {Embedded([temperature |-> Num(U(10)), pressure |-> Num(U(1020))], f) :
        f \in LongForecasts}

\* a reading and a forecast in the three shapes of the argument
Shapes(c, f) == {Sibling(c, f), Embedded(c, f), PyList(<<Embedded(c, f)>>)}

Humid ==
    [temperature |-> Num(U(22)), humidity |-> Num(U(95)),
     precipitation_mm |-> Num(0), symbol_code |-> RainSymbol, timestamp |-> Timestamp]

ShapedInputs ==
    Shapes(<<>>, <<>>) \cup Shapes(<<>>, <<EntryAll>>) \cup Shapes(Humid, <<>>)
        \cup Shapes(Humid, <<EntryAll, EntryEmpty>>)
        \cup {PyList(<<Embedded(Humid, <<EntryAll, EntryEmpty>>),
                       Embedded(<<>>, <<EntryAll>>)>>)}

CallInputs == LongInputs \cup ShapedInputs

InitCalls ==
    /\ data \in CallInputs
    /\ result = <<>>
    /\ pc = "call"
    /\ history = <<>>
    /\ UtilitiesIdle

CallAgain ==
    /\ pc = "return"
    /\ Len(history) < MaxCalls
    /\ data' \in CallInputs
    /\ result' = <<>>
    /\ pc' = "call"
    /\ UNCHANGED history
    /\ UNCHANGED utility_vars

NextCalls == Analyze \/ CallAgain

SpecCalls == InitCalls /\ [][NextCalls]_vars

-----------------------------------------------------------------------------
(* utils/collection.py: call_go_collector, step by step.  collector.pc is   *)
(* the position in the function, collector.first how the 'go run' attempt  *)
(* ended, collector.invocations the subprocess.run calls made so far with   *)
(* their outcome, collector.returned the value returned.  The outcomes of   *)
(* the file operations and of the subprocesses are the environment's.       *)

\* platform.system().lower()
Systems == {"windows", "linux", "darwin"}

\* how a subprocess.run call ends: the exit code is 0 or not, or the call
\* raises FileNotFoundError, TimeoutExpired or another exception
RunOutcomes == {"exit_0", "exit_nonzero", "not_found", "timeout", "error"}

binary_path(system) ==
    IF system = "windows" THEN "./data-collector.exe" ELSE "./data-collector"

fallback_path(system) ==
    IF system = "windows" THEN "data-collector.exe" ELSE "data-collector"

Invocation(command, outcome) == [command |-> command, outcome |-> outcome]

\* the function has returned value
Return(value) == [collector EXCEPT !.pc = "done", !.returned = value]

InitCollector ==
    /\ collector \in {[system |-> sys, pc |-> "write_input", first |-> "not_tried",
                        invocations |-> <<>>, returned |-> "none"] : sys \in Systems}
    /\ cache = <<>>
    /\ translated = <<>>
    /\ timeseries = <<>>
    /\ AnalyzerIdle

\* lines 20-44: the locations are converted and written to the input file
WriteInput ==
    /\ collector # <<>>
    /\ collector.pc = "write_input"
    /\ \E written \in BOOLEAN :
          collector' = IF written THEN [collector EXCEPT !.pc = "go_run"]
                       ELSE Return("False")
    /\ UNCHANGED <<cache, translated, timeseries>>
    /\ UNCHANGED analyzer_vars

\* lines 76-90: where the function goes after the 'go run' attempt
AfterGoRun(ending) ==
    IF ending = "exit_0" THEN "return_true"
    ELSE IF ending = "timeout" THEN "return_false"
    ELSE "binary"

\* lines 46-90: main.go is looked for, the input file is copied, 'go run' is
\* called, and the copy is removed
GoRun ==
    /\ collector # <<>>
    /\ collector.pc = "go_run"
    /\ \E ending \in {"main_go_missing", "copy_error"} \cup RunOutcomes
                         \cup {"exit_0_cleanup_error", "exit_nonzero_cleanup_error"} :
          LET outcome == CASE ending = "exit_0_cleanup_error" -> "exit_0"
                           [] ending = "exit_nonzero_cleanup_error" -> "exit_nonzero"
                           [] OTHER -> ending
              invocations ==
                  IF ending \in {"main_go_missing", "copy_error"}
                  THEN collector.invocations
                  ELSE Append(collector.invocations, Invocation("go run main.go", outcome))
              next == AfterGoRun(ending)
          IN  collector' =
                  [collector EXCEPT
                      !.first = ending,
                      !.invocations = invocations,
                      !.pc = IF next = "binary" THEN "binary" ELSE "done",
                      !.returned = CASE next = "return_true" -> "True"
                                     [] next = "return_false" -> "False"
                                     [] OTHER -> "none"]
    /\ UNCHANGED <<cache, translated, timeseries>>
    /\ UNCHANGED analyzer_vars

\* lines 92-107, 124-132: the compiled binary at ./data-collector
Binary ==
    /\ collector # <<>>
    /\ collector.pc = "binary"
    /\ \E outcome \in RunOutcomes :
          LET invocations == Append(collector.invocations,
                                    Invocation(binary_path(collector.system), outcome))
          IN  collector' =
                  [collector EXCEPT
                      !.invocations = invocations,
                      !.pc = IF outcome = "exit_nonzero" THEN "fallback_path" ELSE "done",
                      !.returned = CASE outcome = "exit_0" -> "True"
                                     [] outcome = "exit_nonzero" -> "none"
                                     [] OTHER -> "False"]
    /\ UNCHANGED <<cache, translated, timeseries>>
    /\ UNCHANGED analyzer_vars

\* lines 108-132: the compiled binary without the leading ./
FallbackPath ==
    /\ collector # <<>>
    /\ collector.pc = "fallback_path"
    /\ \E outcome \in RunOutcomes :
          collector' =
              [collector EXCEPT
                  !.invocations = Append(@, Invocation(fallback_path(collector.system), outcome)),
                  !.pc = "done",
                  !.returned = IF outcome = "exit_0" THEN "True" ELSE "False"]
    /\ UNCHANGED <<cache, translated, timeseries>>
    /\ UNCHANGED analyzer_vars

NextCollector == WriteInput \/ GoRun \/ Binary \/ FallbackPath

SpecCollector == InitCollector /\ [][NextCollector]_vars

-----------------------------------------------------------------------------
(* utils/intelligence_persistence.py: save_to_timeseries for one location.  *)
(* timeseries.file is the location's file (absent, unreadable, or holding   *)
(* the dict of the last successful save), timeseries.now the clock behind   *)
(* datetime.now(), timeseries.returned what the last call returned.         *)
(* timeseries.saved lists the readings of the calls that returned the       *)
(* path, in order, and timeseries.all_saved tells that every call so far    *)
(* has.  Times are counted in calls.                                        *)

ReadingsLimit == 1000

MaxSaves == 3

\* the reading dict of lines 70-82
Reading(weather_data, current_time) ==
    [timestamp |-> Get(weather_data, "timestamp", current_time),
     saved_at |-> current_time,
     temperature |-> Get(weather_data, "temperature", None),
     pressure |-> Get(weather_data, "pressure", None),
     humidity |-> Get(weather_data, "humidity", None),
     wind_speed |-> Get(weather_data, "wind_speed", None),
     wind_direction |-> Get(weather_data, "wind_direction", None),
     cloud_cover |-> Get(weather_data, "cloud_cover", None),
     precipitation_mm |-> Get(weather_data, "precipitation_mm", Num(0)),
     precipitation_probability |-> Get(weather_data, "precipitation_probability", Num(0)),
     symbol_code |-> Get(weather_data, "symbol_code", "unknown")]

\* the timeseries of a location without a file (lines 49-59)
NewTimeseries(current_time) ==
    [location |-> "location", created_at |-> current_time, readings |-> <<>>,
     metadata |-> [total_readings |-> 0, first_reading |-> current_time,
                   last_reading |-> current_time]]

\* the timeseries after a file that could not be read (lines 60-67)
ResetTimeseries(current_time) ==
    [location |-> "location", created_at |-> current_time, readings |-> <<>>,
     metadata |-> [total_readings |-> 0]]

\* Mutant: the limit keeps the first 1000 readings (readings[:1000]).
LimitReadings_KeepOldest(readings) ==
    IF Len(readings) > ReadingsLimit
    THEN SubSeq(readings, 1, ReadingsLimit)
    ELSE readings

\* lines 93-94: readings[-1000:] once there are more than 1000
LimitReadings(readings) ==
    IF Len(readings) > ReadingsLimit
    THEN SubSeq(readings, Len(readings) - ReadingsLimit + 1, Len(readings))
    ELSE readings

\* lines 84-95: the reading is appended, the metadata updated, the readings
\* limited
Updated(loaded, reading, current_time) ==
    LET appended == Append(loaded.readings, reading)
        counted == ("total_readings" :> Len(appended))
                       @@ ("last_reading" :> current_time)
                       @@ loaded.metadata
                       @@ ("first_reading" :> current_time)
        noted == IF Len(appended) > ReadingsLimit
                 THEN ("note" :> "Limited to last 1000 readings") @@ counted
                 ELSE counted
    IN  [loaded EXCEPT !.readings = LimitReadings(appended), !.metadata = noted]

\* the weather_data arguments: an empty dict and a full reading
WeatherReadings ==
    {<<>>,
     [timestamp |-> 0, temperature |-> Num(U(10)), pressure |-> Num(U(1013)),
      humidity |-> Num(U(60)), wind_speed |-> Num(U(5)), wind_direction |-> Num(U(180)),
      cloud_cover |-> Num(U(40)), precipitation_mm |-> Num(U(1)),
      precipitation_probability |-> Num(U(30)), symbol_code |-> "rain"]}

\* the file as k earlier calls with an empty weather_data have left it
Stored(k) ==
    [location |-> "location", created_at |-> 1,
     readings |-> [i \in 1..k |-> Reading(<<>>, i)],
     metadata |-> [total_readings |-> k, first_reading |-> 1, last_reading |-> k]]

\* the numbers of earlier calls the runs start after
StoredBefore == {0, 1, ReadingsLimit - 1, ReadingsLimit}

InitTimeseries ==
    /\ timeseries \in
           {[file |-> IF k = 0 THEN [state |-> "absent", content |-> <<>>]
                      ELSE [state |-> "saved", content |-> Stored(k)],
             now |-> k,
             calls |-> 0,
             saved |-> Stored(k).readings,
             all_saved |-> TRUE,
             returned |-> "none"] : k \in StoredBefore}
    /\ cache = <<>>
    /\ translated = <<>>
    /\ collector = <<>>
    /\ AnalyzerIdle

\* save_to_timeseries(weather_data, location_name): the file is written, or
\* open() fails and it stays as it was, or json.dump fails and it is left
\* unreadable
SaveToTimeseries ==
    /\ timeseries # <<>>
    /\ timeseries.calls < MaxSaves
    /\ \E weather_data \in WeatherReadings, written \in {"saved", "open_failed", "dump_failed"} :
          LET current_time == timeseries.now + 1
              loaded == CASE timeseries.file.state = "saved" -> timeseries.file.content
                          [] timeseries.file.state = "absent" -> NewTimeseries(current_time)
                          [] OTHER -> ResetTimeseries(current_time)
              reading == Reading(weather_data, current_time)
              updated == Updated(loaded, reading, current_time)
          IN  timeseries' =
                  [file |-> CASE written = "saved" -> [state |-> "saved", content |-> updated]
                              [] written = "open_failed" -> timeseries.file
                              [] OTHER -> [state |-> "unreadable", content |-> <<>>],
                   now |-> current_time,
                   calls |-> timeseries.calls + 1,
                   saved |-> IF written = "saved" THEN Append(timeseries.saved, reading)
                             ELSE timeseries.saved,
                   all_saved |-> timeseries.all_saved /\ written = "saved",
                   returned |-> IF written = "saved" THEN "timeseries_file" ELSE "None"]
    /\ UNCHANGED <<cache, translated, collector>>
    /\ UNCHANGED analyzer_vars

NextTimeseries == SaveToTimeseries

SpecTimeseries == InitTimeseries /\ [][NextTimeseries]_vars

-----------------------------------------------------------------------------
(* utils/geocoding.py: GeocodeCache.  A city name is a sequence of          *)
(* characters.  A result is a dict object on the heap: cache.objects maps   *)
(* a reference to the dict's present content, and set stores the reference  *)
(* it is given (written <<r>>, as None is <<>>), after writing cached_at     *)
(* into that dict.  cache.file is the  *)
(* cache file.  cache.sets (the set calls so far, with the name, the        *)
(* reference and the content as passed) and cache.returned (the last get,   *)
(* until the next set) record the calls.                                    *)

MaxSets == 2

\* str.lower() on the characters of the city names
LowerChar(ch) ==
    CASE ch = "P" -> "p"
      [] ch = "Q" -> "q"
      [] OTHER -> ch

Lower(name) == [i \in DOMAIN name |-> LowerChar(name[i])]

\* str.strip(): leading and trailing whitespace removed
RECURSIVE LStrip(_)
LStrip(name) ==
    IF name # <<>> /\ Head(name) = " " THEN LStrip(Tail(name)) ELSE name

RECURSIVE RStrip(_)
RStrip(name) ==
    IF name # <<>> /\ name[Len(name)] = " "
    THEN RStrip(SubSeq(name, 1, Len(name) - 1)) ELSE name

Strip(name) == RStrip(LStrip(name))

\* Mutant: the name is trimmed but not lower-cased.
normalized_name_CaseSensitive(city_name) == Strip(city_name)

\* city_name.lower().strip()
normalized_name(city_name) == Strip(Lower(city_name))

\* the names the callers pass: "P", " P", "p ", "P Q ", "pq", "" and " "
CityNames ==
    {<<"P">>, <<" ", "P">>, <<"p", " ">>, <<"P", " ", "Q", " ">>,
     <<"p", "q">>, <<>>, <<" ">>}

\* the values time.time() returns during the run
Times == {1, 2}

\* the result dicts of the callers: a fresh geocoding result, and one that
\* carries the cached_at of an earlier run
CallerObjects ==
    <<[lat |-> 48, lon |-> 2], [lat |-> 51, lon |-> 0, cached_at |-> 0]>>

\* the entry of an earlier run that _load_cache reads from the file
LoadedRef == Len(CallerObjects) + 1

LoadedPassed == [lat |-> 40, lon |-> 74]

LoadedObject == LoadedPassed @@ [cached_at |-> 0]

\* json.dump(self.cache_data): the content of every cached dict by its key
Snapshot(cache_data, objects) ==
    [n \in DOMAIN cache_data |-> objects[cache_data[n][1]]]

\* GeocodeCache.__init__: the file is missing, or cannot be parsed, or holds
\* what an earlier run saved
InitCache ==
    /\ cache \in
           {[cache_data |-> <<>>, objects |-> CallerObjects,
             file |-> [state |-> st, content |-> <<>>], sets |-> <<>>,
             returned |-> <<>>] : st \in {"absent", "corrupt"}}
           \cup
           {[cache_data |-> (<<"p">> :> <<LoadedRef>>),
             objects |-> Append(CallerObjects, LoadedObject),
             file |-> [state |-> "saved", content |-> (<<"p">> :> LoadedObject)],
             sets |-> <<[name |-> <<"p">>, ref |-> LoadedRef, passed |-> LoadedPassed]>>,
             returned |-> <<>>]}
    /\ translated = <<>>
    /\ collector = <<>>
    /\ timeseries = <<>>
    /\ AnalyzerIdle

\* _save_cache: the file is rewritten; if open() fails it stays as it was,
\* and if json.dump fails its content is lost; the exception is swallowed
SavedFiles(cache_data, objects, file) ==
    {[state |-> "saved", content |-> Snapshot(cache_data, objects)],
     file,
     [state |-> "corrupt", content |-> <<>>]}

\* GeocodeCache.set(city_name, result)
CacheSet ==
    /\ cache # <<>>
    /\ Len(cache.sets) < MaxSets
    /\ \E city_name \in CityNames, ref \in DOMAIN CallerObjects, t \in Times :
          LET objects == [cache.objects EXCEPT ![ref] = ("cached_at" :> t) @@ @]
              cache_data == (normalized_name(city_name) :> <<ref>>) @@ cache.cache_data
          IN  \E file \in SavedFiles(cache_data, objects, cache.file) :
                  cache' = [cache_data |-> cache_data,
                            objects |-> objects,
                            file |-> file,
                            sets |-> Append(cache.sets,
                                            [name |-> city_name, ref |-> ref,
                                             passed |-> cache.objects[ref]]),
                            returned |-> <<>>]
    /\ UNCHANGED <<translated, collector, timeseries>>
    /\ UNCHANGED analyzer_vars

\* GeocodeCache.get(city_name)
CacheGet ==
    /\ cache # <<>>
    /\ \E city_name \in CityNames :
          cache' = [cache EXCEPT !.returned =
                       [name |-> city_name,
                        value |-> Get(cache.cache_data, normalized_name(city_name), None)]]
    /\ UNCHANGED <<translated, collector, timeseries>>
    /\ UNCHANGED analyzer_vars

NextCache == CacheSet \/ CacheGet

SpecCache == InitCache /\ [][NextCache]_vars

-----------------------------------------------------------------------------
(* Properties *)

\* the call has returned a full analysis (neither raised nor the no-data result)
Complete ==
    /\ pc = "return"
    /\ Returned(result)
    /\ result.status = "Analysis complete"

\* the current reading and the forecast the call is about
ArgCurrent == extract_weather_data(data).current_weather

ArgForecast == extract_weather_data(data).forecast_data

Tags(conditions) == {conditions[i] : i \in DOMAIN conditions}

Kinds(highlights) == {highlights[i].kind : i \in DOMAIN highlights}

\* C1: whenever analyze_patterns returns a conditions_detected list,
\* patterns_detected is exactly its length, trend tags included.
C1_PatternsCountConditions ==
    Complete => result.patterns_detected = Len(result.conditions_detected)

\* C1 witness: a result whose list holds tags of the current reading and
\* trend tags of the forecast.
C1_Witness ==
    /\ Complete
    /\ result.forecast_hours > 0
    /\ Len(result.forecast_insights.conditions) > 0
    /\ Len(result.conditions_detected) > Len(result.forecast_insights.conditions)

\* the pressures and wind speeds the first 48 forecast entries carry
MediumPressures ==
    LET present == Present(Take(ArgForecast, MediumTermWindow), "pressure", None)
    IN  [i \in DOMAIN present |-> V(present[i])]

MediumWinds ==
    LET present == Present(Take(ArgForecast, MediumTermWindow), "wind_speed", None)
    IN  [i \in DOMAIN present |-> V(present[i])]

PressureFalls ==
    /\ Len(MediumPressures) > 1
    /\ MediumPressures[Len(MediumPressures)] - MediumPressures[1] < -U(10)

StrongWind ==
    /\ Len(MediumWinds) > 0
    /\ MaxSeq(MediumWinds) > U(18)

\* C2 (as claimed; the code violates it): with more than 24 forecast entries,
\* a first-to-last pressure fall of more than 10 hPa over the first 48
\* entries puts "storm_prediction" into forecast_insights.conditions, and a
\* maximum wind above 18 m/s over them puts "high_wind_warning" there.
C2_MediumTermTagsIncluded ==
    (Complete /\ Len(ArgForecast) > MediumTermMinimum) =>
        /\ PressureFalls =>
               "storm_prediction" \in Tags(result.forecast_insights.conditions)
        /\ StrongWind =>
               "high_wind_warning" \in Tags(result.forecast_insights.conditions)

\* the near-term window and its wet hours by temperature band, for windows
\* whose entries all carry a temperature
NearTerm == Take(ArgForecast, NearTermWindow)

WetHours(lo, hi) ==
    Cardinality({i \in DOMAIN NearTerm :
        /\ V(NearTerm[i].precipitation_mm) > 0
        /\ lo <= V(NearTerm[i].temperature)
        /\ V(NearTerm[i].temperature) <= hi})

BandedWindow ==
    /\ Complete
    /\ Len(NearTerm) > 0
    /\ \A i \in DOMAIN NearTerm :
          /\ {"temperature", "precipitation_mm"} \subseteq DOMAIN NearTerm[i]
          /\ NearTerm[i].temperature # None
          /\ NearTerm[i].precipitation_mm # None
    /\ \E i \in DOMAIN NearTerm : V(NearTerm[i].precipitation_mm) > 0

ColdCount == WetHours(-U(1000), U(2) - 1)

MixCount == WetHours(U(2), U(4))

WarmCount == WetHours(U(4) + 1, U(1000))

PrecipitationTags ==
    {"snow_precipitation_expected", "mix_precipitation_expected", "precipitation_expected"}

\* C3 (as claimed; the code violates it): when some near-term entry is wet,
\* the band (cold < 2, mix 2..4, warm > 4) with the most wet hours decides the
\* tag: snow for cold, mix for mix, precipitation_expected for warm.
C3_DominantBandDecides ==
    BandedWindow =>
        LET tags == Tags(result.forecast_insights.conditions) \cap PrecipitationTags
        IN  /\ (ColdCount > MixCount /\ ColdCount > WarmCount) =>
                   tags = {"snow_precipitation_expected"}
            /\ (MixCount > ColdCount /\ MixCount > WarmCount) =>
                   tags = {"mix_precipitation_expected"}
            /\ (WarmCount > ColdCount /\ WarmCount > MixCount) =>
                   tags = {"precipitation_expected"}

\* the argument is a reading (a dict) with a forecast of dict entries: each
\* optional field is a number, None or missing by construction of the inputs
ReadingArgument == data.type = "dict" /\ IsDict(ArgCurrent)

\* C4 (as claimed; the code violates it): analyze_patterns returns a result
\* for every reading and forecast whose optional numeric fields are each a
\* number or absent (missing, or None as the loader stores a missing key).
C4_NeverRaises ==
    (pc = "return" /\ ReadingArgument) => result # Raised

AbsentInCurrent(k) ==
    /\ IsDict(ArgCurrent)
    /\ Get(ArgCurrent.val, k, None) = None

TemperatureTrendKinds ==
    {"Temperature rising by", "Temperature dropping by",
     "Slight temperature rise of", "Slight temperature drop of"}

PressureTrendKinds ==
    {"Pressure increasing by", "Pressure dropping by",
     "Slight pressure rise of", "Slight pressure drop of"}

\* C5 (as claimed; the code violates it): a current reading without
\* temperature yields no warming_trend/cooling_trend tag and no
\* temperature-trend highlight, and one without pressure yields no
\* pressure_rising/pressure_dropping tag and no pressure-trend highlight.
C5_AbsentFieldSuppresses ==
    (Complete /\ Len(ArgForecast) > 0) =>
        /\ AbsentInCurrent("temperature") =>
              /\ Tags(result.conditions_detected)
                     \cap {"warming_trend", "cooling_trend"} = {}
              /\ Kinds(result.forecast_insights.highlights)
                     \cap TemperatureTrendKinds = {}
        /\ AbsentInCurrent("pressure") =>
              /\ Tags(result.conditions_detected)
                     \cap {"pressure_rising", "pressure_dropping"} = {}
              /\ Kinds(result.forecast_insights.highlights)
                     \cap PressureTrendKinds = {}

\* the empty and falsy arguments: None, [], {}, 0
EmptyArgument ==
    \/ data.type = "NoneType"
    \/ data.type = "list" /\ Len(data.val) = 0
    \/ data.type = "dict" /\ DOMAIN data.val = {}
    \/ data.type = "int" /\ data.val = 0

\* C6: for an empty or falsy argument the result has exactly the four keys
\* status = "No data to analyze", patterns_detected = 0, trend = "unknown",
\* data_points = 0.
C6_EmptyInputResult ==
    (pc = "return" /\ EmptyArgument) =>
        /\ DOMAIN result = {"status", "patterns_detected", "trend", "data_points"}
        /\ result.status = "No data to analyze"
        /\ result.patterns_detected = 0
        /\ result.trend = "unknown"
        /\ result.data_points = 0

\* C6 witness: the call has returned for the empty list or the empty dict.
C6_Witness ==
    /\ pc = "return"
    /\ data \in {PyList(<<>>), PyDict(<<>>)}
    /\ Returned(result)

\* the forecast embedded in the first element of a list argument
FirstElementForecast ==
    IF data.val[1].type = "dict" /\ "forecast" \in DOMAIN data.val[1].val
    THEN data.val[1].val["forecast"]
    ELSE <<>>

\* C7: for a non-empty argument data_points is 1 plus the length of the
\* extracted forecast and forecast_hours is that length; for a list only the
\* first element counts.
C7_DataPoints ==
    Complete =>
        /\ result.data_points = 1 + Len(ArgForecast)
        /\ result.forecast_hours = Len(ArgForecast)
        /\ data.type = "list" =>
               result.data_points = 1 + Len(FirstElementForecast)

\* C7 witness: a list of two readings whose forecasts differ in length; the
\* first one's is counted.
C7_Witness ==
    /\ Complete
    /\ data.type = "list"
    /\ Len(data.val) = 2
    /\ data.val[2].type = "dict"
    /\ Len(FirstElementForecast) > 0
    /\ Len(Get(data.val[2].val, "forecast", <<>>)) > Len(FirstElementForecast)
    /\ result.data_points = 1 + Len(FirstElementForecast)

TrendTags ==
    {"warming_trend", "cooling_trend", "pressure_rising", "pressure_dropping"}

\* C8: for a non-empty argument trend is "insufficient_data" iff
\* data_points < 2 (the forecast is empty) and "analyzing" otherwise, whatever
\* trend tags the detectors produce.
C8_TrendField ==
    Complete =>
        /\ result.trend \in {"insufficient_data", "analyzing"}
        /\ result.trend = "insufficient_data" <=> result.data_points < 2
        /\ result.trend = "insufficient_data" <=> Len(ArgForecast) = 0
        /\ result.trend = "analyzing" <=> Len(ArgForecast) > 0

\* C8 witness: the detectors found a trend and the field still says
\* "analyzing".
C8_Witness ==
    /\ Complete
    /\ Tags(result.conditions_detected) \cap TrendTags # {}
    /\ result.trend = "analyzing"

TemperatureTags ==
    {"freezing_temperature", "hot_temperature", "comfortable_temperature",
     "very_cold_temperature", "warm_temperature"}

\* the tag the claim gives a temperature, by disjoint ranges
ClaimedTemperatureTag(t) ==
    IF t = None THEN <<>>
    ELSE IF V(t) < 0 THEN <<"freezing_temperature">>
    ELSE IF V(t) < U(5) THEN <<"very_cold_temperature">>
    ELSE IF V(t) < U(20) THEN <<>>
    ELSE IF V(t) <= U(25) THEN <<"comfortable_temperature">>
    ELSE IF V(t) <= U(30) THEN <<"warm_temperature">>
    ELSE <<"hot_temperature">>

IsTemperatureTag(tag) == tag \in TemperatureTags

\* C9: the temperature classifier contributes at most one tag: freezing
\* below 0, very cold in [0, 5), none in [5, 20), comfortable in [20, 25],
\* warm in (25, 30], hot above 30, none for an absent temperature.
C9_TemperatureTag ==
    (Complete /\ IsDict(ArgCurrent)) =>
        SelectSeq(result.conditions_detected, IsTemperatureTag)
            = ClaimedTemperatureTag(Get(ArgCurrent.val, "temperature", None))

\* C9 witness: a temperature on a band edge, 25.0, has been classified.
C9_Witness ==
    /\ Complete
    /\ IsDict(ArgCurrent)
    /\ Get(ArgCurrent.val, "temperature", None) = Num(U(25))
    /\ result.conditions_detected = <<"comfortable_temperature">>

\* the place of a tag in the evaluation order of claim C10
Stage(tag) ==
    CASE tag \in TemperatureTags -> 1
      [] tag \in {"high_humidity", "moderate_humidity", "low_humidity"} -> 2
      [] tag \in {"low_pressure", "high_pressure", "below_average_pressure",
                  "above_average_pressure"} -> 3
      [] tag \in {"light_precipitation", "heavy_precipitation",
                  "moderate_precipitation", "potential_precipitation"} -> 4
      [] tag \in {"high_wind_warning", "moderate_wind_warning",
                  "light_wind_condition"} -> 5
      [] tag \in {"overcast_conditions", "mostly_cloudy", "partly_cloudy",
                  "clear_sky_conditions"} -> 6
      [] tag \in {"freezing_precipitation_warning", "snow_rain_mix_warning"} -> 7
      [] tag \in {"very_high_precipitation_probability",
                  "high_precipitation_probability",
                  "moderate_precipitation_probability"} -> 8
      [] tag = "humid_and_warm_condition" -> 9
      [] tag \in {"warming_trend", "cooling_trend"} -> 10
      [] tag \in {"pressure_rising", "pressure_dropping"} -> 11
      [] tag \in {"snow_precipitation_expected", "mix_precipitation_expected",
                  "precipitation_expected", "precipitation_soon",
                  "clearing_trend"} -> 12
      [] tag \in {"high_wind_warning_forecast", "increasing_wind_forecast"} -> 13

\* the reading of the claim's example
ExtremeReading ==
    /\ IsDict(ArgCurrent)
    /\ DOMAIN ArgCurrent.val \ {"timestamp", "forecast"}
           = {"temperature", "humidity", "pressure", "precipitation_mm"}
    /\ ArgCurrent.val["temperature"] = Num(U(-5))
    /\ ArgCurrent.val["humidity"] = Num(U(95))
    /\ ArgCurrent.val["pressure"] = Num(U(980))
    /\ ArgCurrent.val["precipitation_mm"] = Num(U(8))

\* C10: conditions_detected is in evaluation order (the nine classifiers of
\* the current reading, then the temperature, pressure, precipitation and wind
\* trends), and the reading {temperature -5, humidity 95, pressure 980,
\* precipitation_mm 8} gives exactly freezing_temperature, high_humidity,
\* low_pressure, heavy_precipitation, freezing_precipitation_warning.
C10_EvaluationOrder ==
    Complete =>
        /\ \A i, j \in DOMAIN result.conditions_detected :
               i < j => Stage(result.conditions_detected[i])
                            <= Stage(result.conditions_detected[j])
        /\ (ExtremeReading /\ Len(ArgForecast) = 0) =>
               result.conditions_detected =
                   <<"freezing_temperature", "high_humidity", "low_pressure",
                     "heavy_precipitation", "freezing_precipitation_warning">>

\* C10 witness: a result with a tag of the precipitation classifier, tags of
\* the detailed analysis (wind, cloud cover, interaction, probability) and
\* the four trend tags.
C10_Witness ==
    /\ Complete
    /\ {4, 5, 6, 7, 8, 10, 11, 12, 13}
           \subseteq {Stage(t) : t \in Tags(result.conditions_detected)}

\* the highlights of the near-term temperature trend, in order
IsTemperatureTrendHighlight(h) == h.kind \in TemperatureTrendKinds

TemperatureTrendHighlights ==
    SelectSeq(result.forecast_insights.highlights, IsTemperatureTrendHighlight)

TemperatureTrendTags ==
    Tags(result.forecast_insights.conditions) \cap {"warming_trend", "cooling_trend"}

\* T: the current temperature, a number
HasCurrentTemperature ==
    /\ IsDict(ArgCurrent)
    /\ Get(ArgCurrent.val, "temperature", None) # None

\* L - T: the last temperature the first 12 forecast entries carry, less T
LastChange ==
    LET temps == Present(NearTerm, "temperature", None)
    IN  V(temps[Len(temps)]) - V(ArgCurrent.val["temperature"])

HasLastTemperature == Present(NearTerm, "temperature", None) # <<>>

\* C11: with a current temperature T and a last available near-term
\* temperature L, L - T > 1.5 gives the tag warming_trend and one rise
\* highlight, L - T < -1.5 gives cooling_trend and one drop highlight,
\* 0.5 < |L - T| <= 1.5 gives one "slight" highlight and no tag, and
\* |L - T| <= 0.5 gives neither; a 12-entry forecast ending at T + 2.0 has
\* warming_trend in forecast_insights.conditions.
C11_TemperatureTrend ==
    (Complete /\ HasCurrentTemperature /\ HasLastTemperature) =>
        /\ LastChange > 3 * Half =>
               /\ TemperatureTrendTags = {"warming_trend"}
               /\ Len(TemperatureTrendHighlights) = 1
               /\ TemperatureTrendHighlights[1].kind = "Temperature rising by"
               /\ TemperatureTrendHighlights[1].args[1] = LastChange
        /\ LastChange < -(3 * Half) =>
               /\ TemperatureTrendTags = {"cooling_trend"}
               /\ Len(TemperatureTrendHighlights) = 1
               /\ TemperatureTrendHighlights[1].kind = "Temperature dropping by"
               /\ TemperatureTrendHighlights[1].args[1] = -LastChange
        /\ (Half < Abs(LastChange) /\ Abs(LastChange) <= 3 * Half) =>
               /\ TemperatureTrendTags = {}
               /\ Len(TemperatureTrendHighlights) = 1
               /\ TemperatureTrendHighlights[1].kind =
                      (IF LastChange > 0 THEN "Slight temperature rise of"
                       ELSE "Slight temperature drop of")
               /\ TemperatureTrendHighlights[1].args = <<Abs(LastChange)>>
        /\ Abs(LastChange) <= Half =>
               /\ TemperatureTrendTags = {}
               /\ TemperatureTrendHighlights = <<>>
        /\ (Len(ArgForecast) = NearTermWindow /\ LastChange = U(2)) =>
               "warming_trend" \in Tags(result.forecast_insights.conditions)

\* C11 witness: a 12-entry forecast, steady and then ending at T + 2.0, has
\* been analysed and warming_trend is among the forecast conditions.
C11_Witness ==
    /\ Complete
    /\ HasCurrentTemperature
    /\ Len(ArgForecast) = NearTermWindow
    /\ HasLastTemperature
    /\ LastChange = U(2)
    /\ ArgForecast[1] = Steady
    /\ "warming_trend" \in Tags(result.forecast_insights.conditions)

\* C11 witness of the edges: a change of exactly 1.5 has given a slight
\* highlight and no tag.
C11_WitnessEdge ==
    /\ Complete
    /\ HasCurrentTemperature
    /\ HasLastTemperature
    /\ LastChange = 3 * Half
    /\ Len(TemperatureTrendHighlights) = 1
    /\ TemperatureTrendTags = {}

PrecipitationClassifierTags ==
    {"light_precipitation", "moderate_precipitation", "heavy_precipitation",
     "potential_precipitation"}

IsPrecipitationClassifierTag(tag) == tag \in PrecipitationClassifierTags

\* the symbol_code of the current reading starts with "rain"
RainSymbolCode ==
    /\ "symbol_code" \in DOMAIN ArgCurrent.val
    /\ Len(ArgCurrent.val["symbol_code"]) >= 4
    /\ \A i \in 1..4 : ArgCurrent.val["symbol_code"][i] = RainPrefix[i]

\* the tag the claim gives a precipitation p >= 0
ClaimedPrecipitationTag(p) ==
    IF 0 < p /\ p < Half THEN <<"light_precipitation">>
    ELSE IF p > U(5) THEN <<"heavy_precipitation">>
    ELSE IF Half <= p /\ p <= U(5) THEN <<"moderate_precipitation">>
    ELSE IF p = 0 /\ RainSymbolCode THEN <<"potential_precipitation">>
    ELSE <<>>

TemperaturePrecipitationTags ==
    {"freezing_precipitation_warning", "snow_rain_mix_warning"}

\* C12: the precipitation classifier emits exactly one tag when
\* precipitation > 0 (light for 0 < p < 0.5, heavy for p > 5, moderate for
\* 0.5 <= p <= 5); for precipitation 0 it emits potential_precipitation if
\* symbol_code starts with "rain" and nothing otherwise, so a reading with
\* precipitation 0 and no symbol_code gets no precipitation tag.
C12_PrecipitationTag ==
    (Complete /\ IsDict(ArgCurrent) /\ V(CurrentPrecipitation(ArgCurrent)) >= 0) =>
        LET p == V(CurrentPrecipitation(ArgCurrent))
            tags == SelectSeq(result.conditions_detected, IsPrecipitationClassifierTag)
        IN  /\ tags = ClaimedPrecipitationTag(p)
            /\ p > 0 => Len(tags) = 1
            /\ (p = 0 /\ "symbol_code" \notin DOMAIN ArgCurrent.val) =>
                   Tags(result.conditions_detected)
                       \cap (PrecipitationClassifierTags
                                 \cup TemperaturePrecipitationTags) = {}

\* C12 witness: a measured 0.0 under a "lightrain" symbol, which does not
\* start with "rain", has been classified and has no tag.
C12_Witness ==
    /\ Complete
    /\ IsDict(ArgCurrent)
    /\ Get(ArgCurrent.val, "precipitation_mm", None) = Num(0)
    /\ Get(ArgCurrent.val, "symbol_code", <<>>) = LightRainSymbol
    /\ result.conditions_detected = <<>>

\* C12 witness of the light/moderate edge: exactly 0.5 is moderate.
C12_WitnessEdge ==
    /\ Complete
    /\ IsDict(ArgCurrent)
    /\ Get(ArgCurrent.val, "precipitation_mm", None) = Num(Half)
    /\ result.conditions_detected = <<"moderate_precipitation">>

\* the current temperature is missing or None
TemperatureAbsent == Get(ArgCurrent.val, "temperature", None) = None

\* C13: freezing_precipitation_warning is in conditions_detected iff the
\* current precipitation is > 0 and the current temperature is < 0;
\* snow_rain_mix_warning is in it iff 0 <= temperature < 4 and
\* precipitation > 0.5; the two never occur together, and neither occurs
\* when the temperature is absent.
C13_IcingWarnings ==
    (Complete /\ IsDict(ArgCurrent)) =>
        LET tags == Tags(result.conditions_detected)
            p == V(CurrentPrecipitation(ArgCurrent))
            t == V(ArgCurrent.val["temperature"])
        IN  /\ "freezing_precipitation_warning" \in tags
                   <=> (~TemperatureAbsent /\ p > 0 /\ t < 0)
            /\ "snow_rain_mix_warning" \in tags
                   <=> (~TemperatureAbsent /\ 0 <= t /\ t < U(4) /\ p > Half)
            /\ ~TemperaturePrecipitationTags \subseteq tags
            /\ TemperatureAbsent => tags \cap TemperaturePrecipitationTags = {}

\* C13 witness: 0.0 degrees with 0.75 mm, the lower edge of the sleet band,
\* carries the sleet warning and not the freezing one.
C13_Witness ==
    /\ Complete
    /\ IsDict(ArgCurrent)
    /\ Get(ArgCurrent.val, "temperature", None) = Num(0)
    /\ Get(ArgCurrent.val, "precipitation_mm", None) = Num(3)
    /\ "snow_rain_mix_warning" \in Tags(result.conditions_detected)
    /\ "freezing_precipitation_warning" \notin Tags(result.conditions_detected)

\* C13 witness of absence: a wet reading whose temperature is None carries
\* neither warning.
C13_WitnessAbsent ==
    /\ Complete
    /\ IsDict(ArgCurrent)
    /\ "temperature" \in DOMAIN ArgCurrent.val
    /\ ArgCurrent.val["temperature"] = None
    /\ V(CurrentPrecipitation(ArgCurrent)) > Half
    /\ Tags(result.conditions_detected) \cap TemperaturePrecipitationTags = {}

\* the first n tags of a list, each after the first preceded by ", "
RECURSIVE CommaJoined(_, _)
CommaJoined(tags, n) ==
    IF n = 0 THEN ""
    ELSE IF n = 1 THEN tags[1]
    ELSE CommaJoined(tags, n - 1) \o ", " \o tags[n]

\* C14: for every non-empty input, summary is "Normal weather conditions"
\* iff conditions_detected is empty; otherwise it is "Detected n notable
\* conditions: " followed by the tags of conditions_detected joined by ", "
\* in list order, n being the length of the list (also for n = 1).
C14_Summary ==
    Complete =>
        LET tags == result.conditions_detected
            n == Len(tags)
        IN  /\ result.summary = "Normal weather conditions" <=> n = 0
            /\ n > 0 =>
                   result.summary =
                       "Detected " \o ToString(n) \o " notable conditions: "
                           \o CommaJoined(tags, n)

\* C14 witness: the summary of a single tag, in the plural.
C14_Witness ==
    /\ Complete
    /\ result.conditions_detected = <<"comfortable_temperature">>
    /\ result.summary = "Detected 1 notable conditions: comfortable_temperature"

\* C14 witness of the order: three tags, current ones before the trend tag.
C14_WitnessOrder ==
    /\ Complete
    /\ Len(result.conditions_detected) = 3
    /\ result.forecast_hours > 0
    /\ Len(result.forecast_insights.conditions) = 1
    /\ result.summary =
           "Detected 3 notable conditions: " \o result.conditions_detected[1]
               \o ", " \o result.conditions_detected[2]
               \o ", " \o result.forecast_insights.conditions[1]

\* the texts of the highlights of the four medium-term detectors
MediumTermKinds ==
    {"Large temperature swing of", "Moderate temperature swing of", "High of",
     "Low of", "Freezing temperatures down to",
     "Snow expected in next 48 hours", "Mixed precipitation expected in next 48 hours",
     "Heavy rain expected in next 48 hours", "Rain expected in next 48 hours",
     "Precipitation clearing in next 48 hours",
     "Strong winds expected in next 48 hours",
     "Moderate winds expected in next 48 hours", "Sustained moderate winds expected",
     "Pressure drop - changing weather expected in next 48 hours",
     "Pressure rise - improving weather expected in next 48 hours",
     "Small rise in pressure expected", "Small drop in pressure expected"}

IsMediumTermHighlight(h) == h.kind \in MediumTermKinds

MediumTermHighlights ==
    SelectSeq(result.forecast_insights.highlights, IsMediumTermHighlight)

\* what the four detectors report of the first 48 forecast entries
First48Highlights ==
    LET first48 == SubSeq(ArgForecast, 1, Min2(48, Len(ArgForecast)))
    IN  analyze_medium_term_temperature(first48).highlights
            \o analyze_medium_term_precipitation(first48, ArgForecast).highlights
            \o analyze_medium_term_wind(first48).highlights
            \o analyze_medium_term_pressure(
                   first48, CurrentOr(ArgCurrent, "pressure", Num(U(1013)))).highlights

\* C15: the medium-term detectors run iff the forecast has more than 24
\* entries: with 24 entries or fewer there is no medium-term highlight, and
\* with 25 or more the medium-term highlights are those of the first 48
\* entries.
C15_MediumTermThreshold ==
    (Complete /\ Len(ArgForecast) > 0) =>
        /\ Len(ArgForecast) <= 24 => MediumTermHighlights = <<>>
        /\ Len(ArgForecast) >= 25 => MediumTermHighlights = First48Highlights

\* C15 witness: exactly 24 entries whose pressure falls by 12 hPa and whose
\* wind reaches 20 m/s, and no medium-term highlight.
C15_Witness ==
    /\ Complete
    /\ Len(ArgForecast) = 24
    /\ ArgForecast[1] = Calm
    /\ ArgForecast[24] = Stormy
    /\ MediumTermHighlights = <<>>

\* C15 witness above the limit: 25 entries, the same fall and wind, and the
\* medium-term highlights are there.
C15_WitnessRuns ==
    /\ Complete
    /\ Len(ArgForecast) = 25
    /\ ArgForecast[1] = Calm
    /\ ArgForecast[25] = Stormy
    /\ Len(MediumTermHighlights) >= 2

\* C15 witness of the window: a 49th stormy entry after 48 calm ones, and no
\* medium-term highlight.
C15_WitnessWindow ==
    /\ Complete
    /\ Len(ArgForecast) = 49
    /\ \A i \in 1..48 : ArgForecast[i] = Calm
    /\ ArgForecast[49] = Stormy
    /\ MediumTermHighlights = <<>>

\* the forecast insights of the result hold a tag or a highlight
InsightsNonEmpty ==
    /\ result.forecast_hours > 0
    /\ \/ Len(result.forecast_insights.conditions) > 0
       \/ Len(result.forecast_insights.highlights) > 0

\* C17 (as claimed; the code violates it): the key forecast_highlights is in
\* the result only if the forecast insights are non-empty, so a forecast
\* whose detectors produce no tag and no highlight gives a result without
\* the key; when present it equals forecast_insights.highlights.
C17_HighlightsOnlyIfInsights ==
    (Complete /\ "forecast_highlights" \in DOMAIN result) =>
        /\ InsightsNonEmpty
        /\ result.forecast_highlights = result.forecast_insights.highlights

\* every tag literal of utils/analyzer.py
AnalyzerTags ==
    {"freezing_temperature", "hot_temperature", "comfortable_temperature",
     "very_cold_temperature", "warm_temperature",
     "high_humidity", "moderate_humidity", "low_humidity",
     "low_pressure", "high_pressure", "below_average_pressure",
     "above_average_pressure",
     "light_precipitation", "heavy_precipitation", "moderate_precipitation",
     "potential_precipitation",
     "high_wind_warning", "moderate_wind_warning", "light_wind_condition",
     "overcast_conditions", "mostly_cloudy", "partly_cloudy", "clear_sky_conditions",
     "freezing_precipitation_warning", "snow_rain_mix_warning",
     "very_high_precipitation_probability", "high_precipitation_probability",
     "moderate_precipitation_probability", "humid_and_warm_condition",
     "warming_trend", "cooling_trend", "pressure_rising", "pressure_dropping",
     "precipitation_expected", "snow_precipitation_expected",
     "mix_precipitation_expected", "precipitation_soon", "clearing_trend",
     "high_wind_warning_forecast", "increasing_wind_forecast",
     "storm_prediction"}

\* the fallback text of translate_code for a code that is in no table
Fallback(code) == "? " \o code

\* C20: every tag analyze_patterns places in conditions_detected is a key of
\* CONDITION_MAP, so translate_code(tag, 'condition') returns the table
\* entry and never the fallback.
C20_TagsTranslatable ==
    /\ AnalyzerTags \subseteq DOMAIN CONDITION_MAP
    /\ Complete =>
           \A i \in DOMAIN result.conditions_detected :
               LET tag == result.conditions_detected[i]
               IN  /\ tag \in AnalyzerTags
                   /\ tag \in DOMAIN CONDITION_MAP
                   /\ translate_condition(tag) = CONDITION_MAP[tag]
                   /\ translate_condition(tag) # Fallback(tag)

\* C20 witness: a result with nine tags or more, tags of the forecast among
\* them, each with its table entry.
C20_Witness ==
    /\ Complete
    /\ Len(result.conditions_detected) >= 9
    /\ result.forecast_hours > 0
    /\ Len(result.forecast_insights.conditions) >= 3
    /\ \A i \in DOMAIN result.conditions_detected :
          translate_condition(result.conditions_detected[i])
              = CONDITION_MAP[result.conditions_detected[i]]
    /\ translate_condition("warming_trend") = "Temperature rising"

\* the call returned an analysis of a non-empty forecast
ForecastAnalysed == Complete /\ result.forecast_hours > 0

\* the wind speeds the first 12 forecast entries carry
NearWinds ==
    {V(NearTerm[i].wind_speed) :
        i \in {j \in DOMAIN NearTerm : Get(NearTerm[j], "wind_speed", None) # None}}

MaxNearWind == CHOOSE w \in NearWinds : \A v \in NearWinds : v <= w

MinNearWind == CHOOSE w \in NearWinds : \A v \in NearWinds : w <= v

HasCurrentWind ==
    /\ IsDict(ArgCurrent)
    /\ Get(ArgCurrent.val, "wind_speed", None) # None

CurrentWind == V(ArgCurrent.val["wind_speed"])

WindTrendTags == {"high_wind_warning_forecast", "increasing_wind_forecast"}

\* the wind tags among the forecast conditions, as a list
WindTagList ==
    SelectSeq(result.forecast_insights.conditions, LAMBDA t : t \in WindTrendTags)

\* the highlights of the near-term wind trend
WindHighlights ==
    SelectSeq(result.forecast_insights.highlights,
              LAMBDA h : h.kind \in {"Strong winds up to", "Wind speeds increasing to",
                                     "Wind speeds decreasing to"})

\* the "increasing" highlight of the smaller increase, which names no hours
PlainIncrease(h) == h.kind = "Wind speeds increasing to" /\ Len(h.args) = 1

Decrease(h) == h.kind = "Wind speeds decreasing to"

HasHighlight(P(_)) == \E i \in DOMAIN WindHighlights : P(WindHighlights[i])

\* C24: analyze_wind_trends emits at most one tag: high_wind_warning_forecast
\* if and only if the maximum near-term wind is > 12; otherwise
\* increasing_wind_forecast if and only if the current wind is present and
\* max - current > 3; an increase in (1.5, 3] gives a highlight without a
\* tag; the decreasing-wind highlight (min - current < -1.5) is evaluated
\* independently of these; with the current wind absent only the > 12 rule
\* can fire.
C24_WindTrend ==
    ForecastAnalysed =>
        /\ Len(WindTagList) <= 1
        /\ NearWinds = {} => (WindTagList = <<>> /\ WindHighlights = <<>>)
        /\ NearWinds # {} =>
               /\ "high_wind_warning_forecast" \in Tags(WindTagList)
                      <=> MaxNearWind > U(12)
               /\ "increasing_wind_forecast" \in Tags(WindTagList)
                      <=> /\ MaxNearWind <= U(12)
                          /\ HasCurrentWind
                          /\ MaxNearWind - CurrentWind > U(3)
               /\ HasHighlight(PlainIncrease)
                      <=> /\ MaxNearWind <= U(12)
                          /\ HasCurrentWind
                          /\ MaxNearWind - CurrentWind > 3 * Half
                          /\ MaxNearWind - CurrentWind <= U(3)
               /\ HasHighlight(PlainIncrease) => WindTagList = <<>>
               /\ HasHighlight(Decrease)
                      <=> (HasCurrentWind /\ MinNearWind - CurrentWind < -(3 * Half))
               /\ ~HasCurrentWind =>
                      /\ Tags(WindTagList) \subseteq {"high_wind_warning_forecast"}
                      /\ \A i \in DOMAIN WindHighlights :
                             WindHighlights[i].kind = "Strong winds up to"

\* C24 witness: the current wind is 8.0, the forecast holds 6.25 and 12.25:
\* the warning tag and the decreasing highlight come together.
C24_Witness ==
    /\ ForecastAnalysed
    /\ HasCurrentWind
    /\ CurrentWind = U(8)
    /\ NearWinds = {U(8) - (3 * Half) - 1, U(12) + 1}
    /\ WindTagList = <<"high_wind_warning_forecast">>
    /\ HasHighlight(Decrease)

\* C24 witness of the increase without a tag: from 8.0 to exactly 11.0.
C24_WitnessPlainIncrease ==
    /\ ForecastAnalysed
    /\ HasCurrentWind
    /\ CurrentWind = U(8)
    /\ NearWinds # {}
    /\ MaxNearWind = U(11)
    /\ WindTagList = <<>>
    /\ HasHighlight(PlainIncrease)

\* C24 witness without a current wind: a maximum of exactly 12.0 gives
\* nothing.
C24_WitnessNoCurrentWind ==
    /\ ForecastAnalysed
    /\ ~HasCurrentWind
    /\ NearWinds # {}
    /\ MaxNearWind = U(12)
    /\ WindTagList = <<>>
    /\ WindHighlights = <<>>

\* a forecast entry with precipitation among the first three
RainWithinThreeHours ==
    \E i \in 1..Min2(3, Len(NearTerm)) :
        Get(NearTerm[i], "precipitation_mm", None) # None
            /\ V(NearTerm[i].precipitation_mm) > 0

\* C27: the tag precipitation_soon is never emitted, for any forecast and
\* current reading: precipitation > 0 within the first 3 near-term entries
\* is precipitation > 0 in the near term, which the branch before it takes.
C27_PrecipitationSoonUnreachable ==
    ForecastAnalysed =>
        /\ "precipitation_soon" \notin Tags(result.forecast_insights.conditions)
        /\ "precipitation_soon" \notin Tags(result.conditions_detected)
        /\ "Precipitation expected in next 3 hours"
               \notin Kinds(result.forecast_insights.highlights)

\* C27 witness: precipitation within the first three entries has been
\* analysed, and the tag of the whole window is there instead.
C27_Witness ==
    /\ ForecastAnalysed
    /\ RainWithinThreeHours
    /\ Tags(result.forecast_insights.conditions)
           \cap {"precipitation_expected", "snow_precipitation_expected",
                 "mix_precipitation_expected"} # {}
    /\ "precipitation_soon" \notin Tags(result.conditions_detected)

\* the tags of each contributor to conditions_detected: the classifiers of
\* the current reading, then the detectors of the forecast
ContributorTags ==
    <<{"freezing_temperature", "hot_temperature", "comfortable_temperature",
       "very_cold_temperature", "warm_temperature"},
      {"high_humidity", "moderate_humidity", "low_humidity"},
      {"low_pressure", "high_pressure", "below_average_pressure", "above_average_pressure"},
      {"light_precipitation", "heavy_precipitation", "moderate_precipitation",
       "potential_precipitation"},
      {"high_wind_warning", "moderate_wind_warning", "light_wind_condition"},
      {"overcast_conditions", "mostly_cloudy", "partly_cloudy", "clear_sky_conditions"},
      {"freezing_precipitation_warning", "snow_rain_mix_warning"},
      {"very_high_precipitation_probability", "high_precipitation_probability",
       "moderate_precipitation_probability"},
      {"humid_and_warm_condition"},
      {"warming_trend", "cooling_trend"},
      {"pressure_rising", "pressure_dropping"},
      {"precipitation_expected", "snow_precipitation_expected",
       "mix_precipitation_expected", "precipitation_soon", "clearing_trend"},
      {"high_wind_warning_forecast", "increasing_wind_forecast"}>>

\* how often the tags of a set occur in a list
Occurrences(conditions, tags) ==
    Cardinality({i \in DOMAIN conditions : conditions[i] \in tags})

C28_WitnessStorm ==
    /\ Complete
    /\ result.forecast_hours > MediumTermMinimum
    /\ "Strong winds expected in next 48 hours" \in Kinds(result.forecast_insights.highlights)
    /\ Occurrences(result.conditions_detected, {"high_wind_warning"}) = 1

\* C29: whenever humid_and_warm_condition is in conditions_detected, the
\* list also contains exactly one of comfortable_temperature,
\* warm_temperature, hot_temperature and exactly one of moderate_humidity,
\* high_humidity, and contains neither freezing_precipitation_warning nor
\* snow_rain_mix_warning.
C29_HumidAndWarmCompanions ==
    (Complete /\ "humid_and_warm_condition" \in Tags(result.conditions_detected)) =>
        /\ Occurrences(result.conditions_detected,
                       {"comfortable_temperature", "warm_temperature", "hot_temperature"}) = 1
        /\ Occurrences(result.conditions_detected,
                       {"moderate_humidity", "high_humidity"}) = 1
        /\ "freezing_precipitation_warning" \notin Tags(result.conditions_detected)
        /\ "snow_rain_mix_warning" \notin Tags(result.conditions_detected)

\* C29 witness: 30.25 degrees, 60.25 percent and rain: humid and warm, hot,
\* moderately humid.
C29_Witness ==
    /\ Complete
    /\ IsDict(ArgCurrent)
    /\ Get(ArgCurrent.val, "temperature", None) = Num(U(30) + 1)
    /\ Get(ArgCurrent.val, "humidity", None) = Num(U(60) + 1)
    /\ Get(ArgCurrent.val, "precipitation_mm", None) = Num(U(1))
    /\ {"humid_and_warm_condition", "hot_temperature", "moderate_humidity"}
           \subseteq Tags(result.conditions_detected)

\* C29 witness of the limit: at 25 degrees and exactly 60 percent the tag
\* is absent.
C29_WitnessAtLimit ==
    /\ Complete
    /\ IsDict(ArgCurrent)
    /\ Get(ArgCurrent.val, "temperature", None) = Num(U(25))
    /\ Get(ArgCurrent.val, "humidity", None) = Num(U(60))
    /\ "humid_and_warm_condition" \notin Tags(result.conditions_detected)

\* no forecast entry carries a negative precipitation
PrecipitationNonNegative ==
    \A i \in DOMAIN ArgForecast :
        Get(ArgForecast[i], "precipitation_mm", None) # None
            => V(ArgForecast[i].precipitation_mm) >= 0

\* precipitation among the first 12 forecast entries
RainInNearTerm ==
    \E i \in DOMAIN NearTerm :
        Get(NearTerm[i], "precipitation_mm", None) # None
            /\ V(NearTerm[i].precipitation_mm) > 0

ClearingIn48Hours ==
    "Precipitation clearing in next 48 hours" \in Kinds(result.forecast_insights.highlights)

C30_WitnessNegativeAmount ==
    /\ ForecastAnalysed
    /\ ~PrecipitationNonNegative
    /\ RainInNearTerm
    /\ ClearingIn48Hours

-----------------------------------------------------------------------------
(* Properties of calls in sequence (SpecCalls) *)

\* the argument has the shape {current_weather: c, forecast: f}
IsSiblingShape(d) ==
    /\ d.type = "dict"
    /\ {"current_weather", "forecast"} \subseteq DOMAIN d.val
    /\ d.val["current_weather"].type = "dict"

\* the argument is a reading c with an embedded forecast field f
IsEmbeddedShape(d) ==
    /\ d.type = "dict"
    /\ "forecast" \in DOMAIN d.val
    /\ "current_weather" \notin DOMAIN d.val

\* the argument is a list whose first element is such a reading
IsListShape(d) ==
    /\ d.type = "list"
    /\ Len(d.val) > 0
    /\ IsEmbeddedShape(d.val[1])

HasShape(d) == IsSiblingShape(d) \/ IsEmbeddedShape(d) \/ IsListShape(d)

WithoutForecast(c) == [k \in DOMAIN c \ {"forecast"} |-> c[k]]

\* c: the current reading an argument of one of the three shapes carries
ReadingOf(d) ==
    IF IsSiblingShape(d) THEN d.val["current_weather"].val
    ELSE IF IsEmbeddedShape(d) THEN WithoutForecast(d.val)
    ELSE WithoutForecast(d.val[1].val)

\* f: its forecast
ForecastOf(d) ==
    IF IsListShape(d) THEN d.val[1].val["forecast"] ELSE d.val["forecast"]

First48(f) == SubSeq(f, 1, Min2(48, Len(f)))

\* two results agree on everything but data_points and forecast_hours
SameAnalysis(r1, r2) ==
    IF r1 = Raised \/ r2 = Raised THEN r1 = r2
    ELSE /\ r1.conditions_detected = r2.conditions_detected
         /\ r1.forecast_insights = r2.forecast_insights
         /\ r1.summary = r2.summary
         /\ r1.patterns_detected = r2.patterns_detected
         /\ "forecast_highlights" \in DOMAIN r1 <=> "forecast_highlights" \in DOMAIN r2
         /\ "forecast_highlights" \in DOMAIN r1 =>
                r1.forecast_highlights = r2.forecast_highlights

\* C16: forecast entries after the 48th never influence the analysis: two
\* calls with the same current reading whose forecasts have the same first
\* 48 entries return the same conditions_detected, forecast_insights,
\* forecast_highlights, summary and patterns_detected.
C16_BeyondWindowIgnored ==
    \A i, j \in DOMAIN history :
        (/\ IsEmbeddedShape(history[i].input)
         /\ IsEmbeddedShape(history[j].input)
         /\ ReadingOf(history[i].input) = ReadingOf(history[j].input)
         /\ First48(ForecastOf(history[i].input))
                = First48(ForecastOf(history[j].input)))
            => SameAnalysis(history[i].result, history[j].result)

\* C16 witness: two calls whose forecasts share 48 entries, the 48th a storm
\* that the highlights report, and differ in a wet 49th entry.
C16_Witness ==
    \E i, j \in DOMAIN history :
        /\ IsEmbeddedShape(history[i].input)
        /\ IsEmbeddedShape(history[j].input)
        /\ ReadingOf(history[i].input) = ReadingOf(history[j].input)
        /\ Len(ForecastOf(history[i].input)) = 48
        /\ Len(ForecastOf(history[j].input)) = 49
        /\ ForecastOf(history[j].input)[49] = Snowy
        /\ First48(ForecastOf(history[j].input)) = ForecastOf(history[i].input)
        /\ ForecastOf(history[i].input)[48] = Stormy
        /\ history[i].result # Raised
        /\ Len(history[i].result.forecast_highlights) > 0
        /\ history[j].result.forecast_highlights = history[i].result.forecast_highlights
        /\ history[j].result.data_points = history[i].result.data_points + 1

\* c has neither of the keys that select the shape
PlainReading(c) == DOMAIN c \cap {"current_weather", "forecast"} = {}

\* C18: the three shapes of the argument are equivalent: for a reading c
\* (without keys current_weather and forecast) and a forecast f, the calls
\* with {current_weather: c, forecast: f}, with c plus the embedded forecast
\* f, and with a list whose first element is c plus the embedded forecast f
\* return the same result.
C18_ShapesEquivalent ==
    \A i, j \in DOMAIN history :
        (/\ HasShape(history[i].input)
         /\ HasShape(history[j].input)
         /\ PlainReading(ReadingOf(history[i].input))
         /\ ReadingOf(history[i].input) = ReadingOf(history[j].input)
         /\ ForecastOf(history[i].input) = ForecastOf(history[j].input))
            => history[i].result = history[j].result

\* C18 witness: the same reading and two-entry forecast analysed in the
\* three shapes, one call after the other, with tags and highlights.
C18_Witness ==
    /\ Len(history) = 3
    /\ IsSiblingShape(history[1].input)
    /\ IsEmbeddedShape(history[2].input)
    /\ IsListShape(history[3].input)
    /\ \A i \in 1..3 :
          /\ ReadingOf(history[i].input) = Humid
          /\ Len(ForecastOf(history[i].input)) = 2
          /\ history[i].result # Raised
          /\ history[i].result = history[1].result
    /\ Len(history[1].result.conditions_detected) > 0
    /\ Len(history[1].result.forecast_highlights) > 0

\* C18 witness of the empty reading: {} is falsy as a current_weather
\* section and truthy once it holds the forecast field.
C18_WitnessEmptyReading ==
    \E i, j \in DOMAIN history :
        /\ IsSiblingShape(history[i].input)
        /\ IsEmbeddedShape(history[j].input)
        /\ ReadingOf(history[i].input) = <<>>
        /\ ReadingOf(history[j].input) = <<>>
        /\ Len(ForecastOf(history[i].input)) > 0
        /\ ForecastOf(history[i].input) = ForecastOf(history[j].input)
        /\ history[i].result # Raised
        /\ history[i].result = history[j].result

-----------------------------------------------------------------------------
(* Properties of the geocode cache (SpecCache) *)

\* a name without its leading and trailing blanks, in lower case
Trimmed(name) ==
    LET inked == {i \in DOMAIN name : name[i] # " "}
        first == CHOOSE i \in inked : \A j \in inked : i <= j
        last == CHOOSE i \in inked : \A j \in inked : j <= i
    IN  IF inked = {} THEN <<>>
        ELSE [i \in 1..(last - first + 1) |->
                 IF name[first + i - 1] = "P" THEN "p"
                 ELSE IF name[first + i - 1] = "Q" THEN "q"
                 ELSE name[first + i - 1]]

SameCity(a, b) == Trimmed(a) = Trimmed(b)

\* the set calls so far under a name equal to the one looked up
SetsFor(name) == {i \in DOMAIN cache.sets : SameCity(cache.sets[i].name, name)}

LastSetFor(name) ==
    cache.sets[CHOOSE i \in SetsFor(name) : \A j \in SetsFor(name) : j <= i]

\* C21: after any sequence of set calls, get(name) returns the result most
\* recently set under a name equal to it after lower-casing and trimming,
\* with a cached_at field added to what was passed, and None for a name
\* never set; the lookup is case-insensitive.
C21_CacheRoundTrip ==
    (cache # <<>> /\ cache.returned # <<>>) =>
        LET name == cache.returned.name
            value == cache.returned.value
        IN  IF SetsFor(name) = {} THEN value = None
            ELSE /\ value = <<LastSetFor(name).ref>>
                 /\ "cached_at" \in DOMAIN cache.objects[value[1]]
                 /\ \A k \in DOMAIN LastSetFor(name).passed \ {"cached_at"} :
                        /\ k \in DOMAIN cache.objects[value[1]]
                        /\ cache.objects[value[1]][k] = LastSetFor(name).passed[k]
                 /\ DOMAIN cache.objects[value[1]]
                        = DOMAIN LastSetFor(name).passed \cup {"cached_at"}

\* C21 witness: a result set under " P", another under "p " and then the
\* lookup of "P" returns the second.
C21_Witness ==
    /\ cache # <<>>
    /\ cache.returned # <<>>
    /\ cache.returned.name = <<"P">>
    /\ Len(cache.sets) = 2
    /\ cache.sets[1].name = <<" ", "P">>
    /\ cache.sets[2].name = <<"p", " ">>
    /\ cache.sets[1].ref # cache.sets[2].ref
    /\ cache.returned.value = <<cache.sets[2].ref>>

\* C21 witness of a miss: "pq" was never set while "P Q " was.
C21_WitnessMiss ==
    /\ cache # <<>>
    /\ cache.returned # <<>>
    /\ cache.returned.name = <<"p", "q">>
    /\ \E i \in DOMAIN cache.sets : cache.sets[i].name = <<"P", " ", "Q", " ">>
    /\ cache.returned.value = None

-----------------------------------------------------------------------------
(* Properties of translate_code (SpecTranslate) *)

\* C22: translate_code returns the table entry for a code present in the
\* table of its type, and for every non-empty code that is not in that table
\* (an unknown code of a valid type, or any code of an unknown type) it
\* returns the question mark followed by the code itself.
C22_TableOrFallback ==
    (translated # <<>> /\ translated.done /\ translated.code # "") =>
        LET table == IF translated.code_type = "weather_symbol" THEN WEATHER_SYMBOL_MAP
                     ELSE IF translated.code_type = "condition" THEN CONDITION_MAP
                     ELSE <<>>
        IN  IF translated.code \in DOMAIN table
            THEN translated.result = table[translated.code]
            ELSE translated.result = Fallback(translated.code)

\* the part of C22 that holds: the table entry for a code in the table of
\* its type, and the fallback for an unknown code of the type 'condition' or
\* of an unknown type
C22_TableOrFallbackExceptSymbols ==
    (translated # <<>> /\ translated.done /\ translated.code # "") =>
        LET table == IF translated.code_type = "weather_symbol" THEN WEATHER_SYMBOL_MAP
                     ELSE IF translated.code_type = "condition" THEN CONDITION_MAP
                     ELSE <<>>
        IN  IF translated.code \in DOMAIN table
            THEN translated.result = table[translated.code]
            ELSE translated.code_type # "weather_symbol"
                    => translated.result = Fallback(translated.code)

-----------------------------------------------------------------------------
(* Properties of call_go_collector (SpecCollector) *)

\* the call has returned
Returned_Collector == collector # <<>> /\ collector.pc = "done"

\* the compiled binary was invoked, under either of its paths
BinaryInvoked ==
    \E i \in DOMAIN collector.invocations :
        collector.invocations[i].command \in
            {"./data-collector", "./data-collector.exe", "data-collector", "data-collector.exe"}

SomeInvocationExitedZero ==
    \E i \in DOMAIN collector.invocations : collector.invocations[i].outcome = "exit_0"

\* the 'go run' attempt was made and did not succeed
FirstAttemptFailed == collector.first \notin {"not_tried", "exit_0"}

\* C23: whenever the 'go run' attempt does not succeed (non-zero exit code,
\* main.go or the go command missing, timeout, any other exception) the
\* compiled binary is invoked before the function returns False, and the
\* function returns True if and only if some invocation exited with code 0.
C23_AlwaysFallsBack ==
    Returned_Collector =>
        /\ (FirstAttemptFailed /\ collector.returned = "False") => BinaryInvoked
        /\ collector.returned = "True" <=> SomeInvocationExitedZero

\* C23, as the code has it: a 'go run' that times out ends the call with
\* False and the binary is not invoked; after every other failure of the
\* first attempt the binary is invoked before the function returns.  The
\* function returns True only if some invocation exited with code 0, and it
\* does return True then unless removing the copied input file failed after
\* 'go run' and the binary did not exit with 0 either.
C23_FallsBackExceptOnTimeout ==
    Returned_Collector =>
        /\ (FirstAttemptFailed /\ collector.first # "timeout") => BinaryInvoked
        /\ collector.first = "timeout" => (collector.returned = "False" /\ ~BinaryInvoked)
        /\ collector.returned = "True" => SomeInvocationExitedZero
        /\ (SomeInvocationExitedZero /\ collector.first # "exit_0_cleanup_error")
               => collector.returned = "True"
        /\ collector.returned = "True" =>
               collector.invocations[Len(collector.invocations)].outcome = "exit_0"

\* C23, a fallback: the go command is missing, ./data-collector exits with a
\* non-zero code, data-collector too, and the function returns False.
C23_FallbackTaken ==
    /\ Returned_Collector
    /\ collector.first = "not_found"
    /\ Len(collector.invocations) = 3
    /\ collector.invocations[2] = Invocation("./data-collector", "exit_nonzero")
    /\ collector.invocations[3] = Invocation("data-collector", "exit_nonzero")
    /\ collector.returned = "False"

\* C23, the timeout: 'go run' timed out and the function returned
\* False after that single invocation.
C23_TimeoutReturns ==
    /\ Returned_Collector
    /\ collector.first = "timeout"
    /\ collector.invocations = <<Invocation("go run main.go", "timeout")>>
    /\ collector.returned = "False"

-----------------------------------------------------------------------------
(* Properties of save_to_timeseries (SpecTimeseries) *)

\* every call so far returned the path, and the file holds a timeseries
AllSaved ==
    /\ timeseries # <<>>
    /\ timeseries.all_saved
    /\ timeseries.file.state = "saved"

StoredReadings == timeseries.file.content.readings

\* the last n elements of a list, or all of it
LastOf(list, n) ==
    IF Len(list) <= n THEN list ELSE SubSeq(list, Len(list) - n + 1, Len(list))

\* C25: after any sequence of successful save_to_timeseries calls for one
\* location the stored file holds at most 1000 readings, and they are the
\* most recently saved readings in the order they were saved.
C25_LastThousandReadings ==
    AllSaved =>
        /\ Len(StoredReadings) <= 1000
        /\ StoredReadings = LastOf(timeseries.saved, 1000)

\* C25 witness: 1002 readings have been saved, the last two by the calls of
\* this run, and the file holds the last 1000.
C25_Witness ==
    /\ AllSaved
    /\ timeseries.calls = 2
    /\ Len(timeseries.saved) = 1002
    /\ Len(StoredReadings) = 1000
    /\ StoredReadings[1] = timeseries.saved[3]
    /\ StoredReadings[1000] = timeseries.saved[1002]
    /\ StoredReadings[999] # StoredReadings[1000]

\* C26: after any sequence of successful save_to_timeseries calls for one
\* location, metadata.total_readings in the stored file equals the number of
\* readings stored in that file.
C26_TotalReadingsIsStoredCount ==
    AllSaved =>
        timeseries.file.content.metadata["total_readings"] = Len(StoredReadings)

\* C26, up to the limit: while no more than 1000 readings have been saved,
\* total_readings is the number of readings stored; from the 1001st on it
\* is 1001 and the file holds 1000.
C26_TotalReadingsUpToLimit ==
    AllSaved =>
        timeseries.file.content.metadata["total_readings"] =
            (IF Len(timeseries.saved) <= 1000 THEN Len(StoredReadings) ELSE 1001)

\* C26, the 1001st save: the file holds 1000 readings and total_readings
\* is 1001.
C26_OverLimit ==
    /\ AllSaved
    /\ Len(timeseries.saved) = 1001
    /\ Len(StoredReadings) = 1000
    /\ timeseries.file.content.metadata["total_readings"] = 1001

=============================================================================
